---- MODULE Spec2Model ----
(***************************************************************************)
(* Batch generation pipeline of the wrapped-calendar tool.                 *)
(*                                                                         *)
(* processBatchGeneration drives each month through processMonthGeneration *)
(* (analyzeInputClient, then generateImageClient), one month at a time.    *)
(* The two clients talk to /api/analyze and /api/generate through fetch;   *)
(* the answers of those endpoints are the environment of this model.       *)
(*                                                                         *)
(* JavaScript values:                                                      *)
(*   - `T | null` is an option: Null is <<>>, a present value v is <<v>>;  *)
(*   - a string whose characters matter (the text a user typed, the        *)
(*     content sent to the analysis) is a sequence of characters, the      *)
(*     empty string being <<>>;                                            *)
(*   - a string that is only passed along (a message, a prompt, an image   *)
(*     url coming back from the server) is a TLA+ string, "" being empty.  *)
(***************************************************************************)
EXTENDS Integers, Sequences, FiniteSets, TLC

\* Longest batch handed to processBatchGeneration.
MaxMonths == 3
\* Longest text description of a month.
MaxTextLen == 3

Null == <<>>
Some(v) == <<v>>

VARIABLES
    months,             \* params.months: sequence of [data, index]
    baseStyleImageUrl,  \* params.baseStyleImageUrl
    onProgress,         \* TRUE when params.onProgress is supplied
    api,                \* the answers /api/analyze and /api/generate may give
    pc,                 \* position of processBatchGeneration
    i,                  \* loop counter of processBatchGeneration
    results,            \* the results array of processBatchGeneration
    generatedPrompt,    \* local of processMonthGeneration
    progressCalls,      \* arguments of the onProgress calls made so far
    calls,              \* fetch calls made so far, with their answer once it came
    promise,            \* state of the promise processBatchGeneration returned
    codecIn,            \* imageUtils: the bytes and media type to encode, or Null
    dataUri,            \* imageUtils: the data URI at hand, or Null
    base64Data,         \* imageUtils: outcome of extractBase64FromDataUri, or Null
    mediaType,          \* imageUtils: outcome of extractMediaTypeFromDataUri, or Null
    monthsData,         \* WrappedPoster: the months of the calendar
    selectedBaseStyle,  \* WrappedPoster: the base style chosen, or Null
    isProcessingAll,    \* WrappedPoster: a batch is running
    batchProgress,      \* WrappedPoster: the progress shown
    generationError,    \* WrappedPoster: the error shown, or Null
    selectedMonth,      \* WrappedPoster: the month open in the editor (from 0), or Null
    upload,             \* WrappedPoster: the month an upload in progress was started for, or Null
    uploadError,        \* WrappedPoster: the upload error shown, or Null
    collection,         \* base styles: the document stored under each ObjectId, or Null
    inserted,           \* base styles: how many ObjectIds the store has generated
    now,                \* base styles: the time of the server's clock
    ignoreUndefined,    \* base styles: the option of the connection getDatabase makes
    response,           \* base styles: the last request with its answer, or Null
    isProcessing,       \* useUploadImageProcessor: an image is being processed
    imageError,         \* useUploadImageProcessor: the state `error`, or Null
    file,               \* useUploadImageProcessor: the file of the last processImage call, or Null
    reading,            \* useUploadImageProcessor: the file the FileReader was given, or Null
    processed,          \* useUploadImageProcessor: state of the promise of the last processImage call
    request,            \* /api/analyze, /api/generate: the request at hand, or Null
    routePc,            \* /api/analyze, /api/generate: position of POST
    limiter,            \* what checkRateLimit did for the request
    rateLimitResult,    \* the rateLimitResult of rateLimitMiddleware, or Null
    bodyRead,           \* TRUE when request.json() was called
    aiCalls,            \* the parameters of the calls of analyzeInput / generateImage
    routeResponse,      \* the NextResponse of POST, or Null
    images,             \* BaseStyleUploader: the files selected
    names,              \* BaseStyleUploader: the name typed for each position
    previews,           \* BaseStyleUploader: the object URL of each position
    uploading,          \* BaseStyleUploader: handleUpload is running
    uploadResults,      \* BaseStyleUploader: the results shown
    closure,            \* BaseStyleUploader: the images and names handleUpload runs with, or Null
    uploadIndex,        \* BaseStyleUploader: loop counter of handleUpload
    resultsSoFar,       \* BaseStyleUploader: the local results of handleUpload
    timers,             \* BaseStyleUploader: the resets scheduled, each with the files of its upload
    created             \* how many File objects and object URLs the browser has made

batchVars == <<months, baseStyleImageUrl, onProgress, api, pc, i, results,
               generatedPrompt, progressCalls, calls, promise>>
codecVars == <<codecIn, dataUri, base64Data, mediaType>>
storeVars == <<collection, inserted, now, ignoreUndefined, response>>
\* What the onProgress of WrappedPoster writes.
callbackVars == <<monthsData, batchProgress>>
\* The state of useUploadImageProcessor.
processorVars == <<isProcessing, imageError, file, reading, processed>>
posterVars == <<callbackVars, selectedBaseStyle, isProcessingAll, generationError,
                selectedMonth, upload, uploadError, processorVars>>
routeVars == <<request, routePc, limiter, rateLimitResult, bodyRead, aiCalls, routeResponse>>
uploaderVars == <<images, names, previews, uploading, uploadResults, closure, uploadIndex,
                  resultsSoFar, timers, created>>
\* What a step of the batch never touches.
outsideBatch == <<codecVars, storeVars, routeVars, uploaderVars, selectedBaseStyle,
                  isProcessingAll, generationError, selectedMonth, upload, uploadError,
                  processorVars>>

vars == <<batchVars, codecVars, posterVars, storeVars, routeVars, uploaderVars>>

----------------------------------------------------------------------------
(* Strings *)

WhiteSpace == {" ", "\n"}
Chars == WhiteSpace \cup {"a"}

RECURSIVE trimStart(_)
trimStart(s) ==
    IF s # <<>> /\ Head(s) \in WhiteSpace THEN trimStart(Tail(s)) ELSE s

RECURSIVE trimEnd(_)
trimEnd(s) ==
    IF s # <<>> /\ s[Len(s)] \in WhiteSpace
    THEN trimEnd(SubSeq(s, 1, Len(s) - 1))
    ELSE s

\* String.prototype.trim
trim(s) == trimEnd(trimStart(s))

\* Truthiness of a `string | null`: null and "" are falsy.
Truthy(opt) == opt # Null /\ opt[1] # <<>>

\* Sequences over S of length at most n.
SeqUpTo(S, n) == UNION {[1..k -> S] : k \in 0..n}

----------------------------------------------------------------------------
(* Thrown values and function outcomes *)

\* An Error object with the given message.
Err(msg) == [isError |-> TRUE, message |-> msg]
\* A thrown value that is not an Error: the string s.
NonError(s) == [isError |-> FALSE, message |-> s]
\* String(v) of a thrown string is the string itself.
String(v) == v.message

Return(v) == [returned |-> TRUE, value |-> v]
Throw(t) == [returned |-> FALSE, value |-> t]

----------------------------------------------------------------------------
(* The environment: what fetch may settle with *)

\* fetch rejects (the endpoint is unreachable).
Reject(thrown) == [kind |-> "reject", thrown |-> thrown]
\* fetch resolves with a Response; json is Null when the body does not parse.
Response(ok, json) == [kind |-> "response", ok |-> ok, json |-> json]
Body(error, prompt, imageUrl) ==
    [error |-> error, prompt |-> prompt, imageUrl |-> imageUrl]

Unreachable == {Reject(Err("Failed to fetch")), Reject(NonError("aborted"))}
HttpErrors ==
    { Response(FALSE, Null),
      Response(FALSE, Some(Body("", "", ""))),
      Response(FALSE, Some(Body("Rate limit exceeded", "", ""))) }

\* Every kind of answer, for the batches of a single month.
FullApi ==
    [ analyze  |-> Unreachable \cup HttpErrors \cup
                   { Response(TRUE, Null),
                     Response(TRUE, Some(Body("", "", ""))),
                     Response(TRUE, Some(Body("", "make it snowy", ""))) },
      generate |-> Unreachable \cup HttpErrors \cup
                   { Response(TRUE, Null),
                     Response(TRUE, Some(Body("", "", ""))),
                     Response(TRUE, Some(Body("", "", "data:image/png;base64,UkVT"))) } ]

\* One success and one failure per endpoint, for the longer batches.
CoreApi ==
    [ analyze  |-> { Reject(NonError("aborted")),
                     Response(TRUE, Some(Body("", "make it snowy", ""))) },
      generate |-> { Response(FALSE, Some(Body("Rate limit exceeded", "", ""))),
                     Response(TRUE, Some(Body("", "", "data:image/png;base64,UkVT"))) } ]

----------------------------------------------------------------------------
(* calendarService *)

\* Variant of analyzeInputClient: the prompt of an ok answer is returned unchecked.
analyzeInputClientNoPromptCheck(resp) ==
    IF resp.kind = "reject" THEN Throw(resp.thrown)
    ELSE IF ~resp.ok THEN
        LET errorData == IF resp.json = Null
                         THEN [error |-> "Analysis failed"]
                         ELSE resp.json[1]
        IN  Throw(Err(IF errorData.error # "" THEN errorData.error
                      ELSE "Failed to analyze input"))
    ELSE IF resp.json = Null THEN Throw(Err("Unexpected end of JSON input"))
    ELSE Return(resp.json[1].prompt)

analyzeInputClient(resp) ==
    IF resp.kind = "reject" THEN Throw(resp.thrown)
    ELSE IF ~resp.ok THEN
        LET errorData == IF resp.json = Null
                         THEN [error |-> "Analysis failed"]
                         ELSE resp.json[1]
        IN  Throw(Err(IF errorData.error # "" THEN errorData.error
                      ELSE "Failed to analyze input"))
    ELSE IF resp.json = Null THEN Throw(Err("Unexpected end of JSON input"))
    ELSE IF resp.json[1].prompt = "" THEN Throw(Err("No prompt generated from analysis"))
    ELSE Return(resp.json[1].prompt)

\* Variant of generateImageClient: the imageUrl of an ok answer is returned unchecked.
generateImageClientNoImageCheck(resp) ==
    IF resp.kind = "reject" THEN Throw(resp.thrown)
    ELSE IF ~resp.ok THEN
        LET errorData == IF resp.json = Null
                         THEN [error |-> "Generation failed"]
                         ELSE resp.json[1]
        IN  Throw(Err(IF errorData.error # "" THEN errorData.error
                      ELSE "Failed to generate image"))
    ELSE IF resp.json = Null THEN Throw(Err("Unexpected end of JSON input"))
    ELSE Return(resp.json[1].imageUrl)

generateImageClient(resp) ==
    IF resp.kind = "reject" THEN Throw(resp.thrown)
    ELSE IF ~resp.ok THEN
        LET errorData == IF resp.json = Null
                         THEN [error |-> "Generation failed"]
                         ELSE resp.json[1]
        IN  Throw(Err(IF errorData.error # "" THEN errorData.error
                      ELSE "Failed to generate image"))
    ELSE IF resp.json = Null THEN Throw(Err("Unexpected end of JSON input"))
    ELSE IF resp.json[1].imageUrl = "" THEN Throw(Err("No image was generated"))
    ELSE Return(resp.json[1].imageUrl)

\* Variant of AnalyzeParams: the type is chosen by `baseImage !== null`.
AnalyzeParamsNullCheck(monthData) ==
    [ type    |-> IF monthData.baseImage # Null THEN "image" ELSE "text",
      content |-> IF Truthy(monthData.baseImage)
                  THEN monthData.baseImage[1]
                  ELSE trim(monthData.editPrompt) ]

\* The body processMonthGeneration sends to /api/analyze.
AnalyzeParams(monthData) ==
    [ type    |-> IF Truthy(monthData.baseImage) THEN "image" ELSE "text",
      content |-> IF Truthy(monthData.baseImage)
                  THEN monthData.baseImage[1]
                  ELSE trim(monthData.editPrompt) ]

\* The body processMonthGeneration sends to /api/generate.
GenerateParams(styleUrl, prompt) == [baseImageUrl |-> styleUrl, prompt |-> prompt]

Call(endpoint, body, item) ==
    [endpoint |-> endpoint, body |-> body, item |-> item, response |-> Null]

\* The answer of the call in flight arrives.
Settle(cs, resp) == [cs EXCEPT ![Len(cs)].response = Some(resp)]

\* The fetch calls that have not been answered yet.
InFlight == {k \in DOMAIN calls : calls[k].response = Null}

MonthGenerationResult(resultImageUrl, prompt) ==
    [resultImageUrl |-> resultImageUrl, generatedPrompt |-> prompt]

\* Variant of ToError: the thrown value is stored as it is.
ToErrorRaw(error) == error

\* error instanceof Error ? error : new Error(String(error))
ToError(error) == IF error.isError THEN error ELSE Err(String(error))

\* Variant of SuccessEntry: the loop counter is stored instead of the item's index.
SuccessEntryLoopIndex(index, result) == [index |-> i, result |-> Some(result), error |-> Null]
SuccessEntry(index, result) == [index |-> index, result |-> Some(result), error |-> Null]
\* Variant of FailureEntry: the error is dropped.
FailureEntryNoError(index, err) == [index |-> index, result |-> Null, error |-> Null]
FailureEntry(index, err) == [index |-> index, result |-> Null, error |-> Some(err)]

Progress(completed, total, current) ==
    [completed |-> completed, total |-> total, current |-> current]

\* if (onProgress) onProgress(p)
Notify(log, p) == IF onProgress THEN Append(log, p) ELSE log

\* What calling onProgress(p) does when the batch was started by
\* handleGenerateCalendar: setBatchProgress(p), and the month p.current
\* gets the status 'processing'.
PosterOnProgress(p) ==
    IF onProgress /\ isProcessingAll
    THEN /\ batchProgress' = p
         /\ monthsData' = IF p.current # Null
                           THEN [monthsData EXCEPT ![p.current[1] + 1].status = "processing"]
                           ELSE monthsData
    ELSE UNCHANGED callbackVars

\* The call of processBatchGeneration: results = [], i = 0.
processBatchGeneration ==
    /\ pc = "idle"
    /\ pc' = "for"
    /\ i' = 0
    /\ results' = <<>>
    /\ UNCHANGED <<months, baseStyleImageUrl, onProgress, api, generatedPrompt,
                   progressCalls, calls, promise>>
    /\ UNCHANGED <<outsideBatch, callbackVars>>

\* Variant of StartItem: processMonthGeneration is called without await, the
\* promise is pushed as the result and the loop moves on.
StartItemNoAwait ==
    /\ pc = "for"
    /\ i < Len(months)
    /\ progressCalls' = Notify(Notify(progressCalls,
                                      Progress(i, Len(months), Some(months[i + 1].index))),
                               Progress(i + 1, Len(months), Null))
    /\ generatedPrompt' = Null
    /\ calls' = Append(calls, Call("/api/analyze", AnalyzeParams(months[i + 1].data), i))
    /\ results' = Append(results, SuccessEntry(months[i + 1].index, [pending |-> TRUE]))
    /\ i' = i + 1
    /\ pc' = "for"
    /\ IF onProgress /\ isProcessingAll
       THEN /\ batchProgress' = Progress(i + 1, Len(months), Null)
            /\ monthsData' = [monthsData EXCEPT ![months[i + 1].index + 1].status = "processing"]
       ELSE UNCHANGED callbackVars
    /\ UNCHANGED <<months, baseStyleImageUrl, onProgress, api, promise>>
    /\ UNCHANGED outsideBatch

\* Loop head with an item left: progress before the item, then
\* processMonthGeneration up to the fetch of /api/analyze.
StartItem ==
    /\ pc = "for"
    /\ i < Len(months)
    /\ progressCalls' = Notify(progressCalls,
                               Progress(i, Len(months), Some(months[i + 1].index)))
    /\ generatedPrompt' = Null
    /\ calls' = Append(calls, Call("/api/analyze", AnalyzeParams(months[i + 1].data), i))
    /\ pc' = "analyze"
    /\ PosterOnProgress(Progress(i, Len(months), Some(months[i + 1].index)))
    /\ UNCHANGED <<months, baseStyleImageUrl, onProgress, api, i, results, promise>>
    /\ UNCHANGED outsideBatch

\* Variant of ReturnResults: the batch returns as soon as an item has failed.
ReturnResultsEarly ==
    /\ pc = "for"
    /\ \/ i >= Len(months)
       \/ \E k \in 1..Len(results) : results[k].error # Null
    /\ promise' = "fulfilled"
    /\ pc' = "returned"
    /\ UNCHANGED <<months, baseStyleImageUrl, onProgress, api, i, results,
                   generatedPrompt, progressCalls, calls>>
    /\ UNCHANGED <<outsideBatch, callbackVars>>

\* Loop head with no item left: return { results }.
ReturnResults ==
    /\ pc = "for"
    /\ i >= Len(months)
    /\ promise' = "fulfilled"
    /\ pc' = "returned"
    /\ UNCHANGED <<months, baseStyleImageUrl, onProgress, api, i, results,
                   generatedPrompt, progressCalls, calls>>
    /\ UNCHANGED <<outsideBatch, callbackVars>>

\* Variant of Catch: the first failure ends the loop.
CatchAborts(error) ==
    /\ results' = Append(results, FailureEntry(months[i + 1].index, ToError(error)))
    /\ progressCalls' = Notify(progressCalls, Progress(i + 1, Len(months), Null))
    /\ PosterOnProgress(Progress(i + 1, Len(months), Null))
    /\ i' = Len(months)
    /\ pc' = "for"
    /\ promise' = promise

\* Variant of Catch: no progress report on failure.
CatchNoProgress(error) ==
    /\ results' = Append(results, FailureEntry(months[i + 1].index, ToError(error)))
    /\ progressCalls' = progressCalls
    /\ UNCHANGED callbackVars
    /\ i' = i + 1
    /\ pc' = "for"
    /\ promise' = promise

\* Variant of Catch: the failure is put in front of the list (unshift).
CatchUnshift(error) ==
    /\ results' = <<FailureEntry(months[i + 1].index, ToError(error))>> \o results
    /\ progressCalls' = Notify(progressCalls, Progress(i + 1, Len(months), Null))
    /\ PosterOnProgress(Progress(i + 1, Len(months), Null))
    /\ i' = i + 1
    /\ pc' = "for"
    /\ promise' = promise

\* The catch block of processBatchGeneration and the end of the iteration.
Catch(error) ==
    /\ results' = Append(results, FailureEntry(months[i + 1].index, ToError(error)))
    /\ progressCalls' = Notify(progressCalls, Progress(i + 1, Len(months), Null))
    /\ PosterOnProgress(Progress(i + 1, Len(months), Null))
    /\ i' = i + 1
    /\ pc' = "for"
    /\ promise' = promise

\* /api/analyze answered and analyzeInputClient returned a prompt:
\* processMonthGeneration goes on to the fetch of /api/generate.
AnalyzeResolves(resp) ==
    /\ pc = "analyze"
    /\ analyzeInputClient(resp).returned
    /\ generatedPrompt' = Some(analyzeInputClient(resp).value)
    /\ calls' = Append(Settle(calls, resp),
                       Call("/api/generate",
                            GenerateParams(baseStyleImageUrl,
                                           analyzeInputClient(resp).value), i))
    /\ pc' = "generate"
    /\ UNCHANGED <<months, baseStyleImageUrl, onProgress, api, i, results,
                   progressCalls, promise>>
    /\ UNCHANGED <<outsideBatch, callbackVars>>

\* Variant of AnalyzeRejects: a failed analysis is tried once more.
AnalyzeRejectsRetry(resp) ==
    /\ pc = "analyze"
    /\ ~analyzeInputClient(resp).returned
    /\ IF Cardinality({c \in DOMAIN calls : calls[c].item = i}) < 2
       THEN /\ calls' = Append(Settle(calls, resp),
                               Call("/api/analyze", AnalyzeParams(months[i + 1].data), i))
            /\ UNCHANGED <<results, progressCalls, i, pc, promise, callbackVars>>
       ELSE /\ calls' = Settle(calls, resp)
            /\ Catch(analyzeInputClient(resp).value)
    /\ UNCHANGED <<months, baseStyleImageUrl, onProgress, api, generatedPrompt>>
    /\ UNCHANGED outsideBatch

\* analyzeInputClient threw: processMonthGeneration rejects, the batch catches.
AnalyzeRejects(resp) ==
    /\ pc = "analyze"
    /\ ~analyzeInputClient(resp).returned
    /\ calls' = Settle(calls, resp)
    /\ Catch(analyzeInputClient(resp).value)
    /\ UNCHANGED <<months, baseStyleImageUrl, onProgress, api, generatedPrompt>>
    /\ UNCHANGED outsideBatch

\* Variant of GenerateResolves: the result is pushed inside `if (onProgress)`.
GenerateResolvesInsideCallback(resp) ==
    /\ pc = "generate"
    /\ generateImageClient(resp).returned
    /\ calls' = Settle(calls, resp)
    /\ results' = IF onProgress
                  THEN Append(results,
                              SuccessEntry(months[i + 1].index,
                                           MonthGenerationResult(generateImageClient(resp).value,
                                                                 generatedPrompt[1])))
                  ELSE results
    /\ progressCalls' = Notify(progressCalls, Progress(i + 1, Len(months), Null))
    /\ PosterOnProgress(Progress(i + 1, Len(months), Null))
    /\ i' = i + 1
    /\ pc' = "for"
    /\ UNCHANGED <<months, baseStyleImageUrl, onProgress, api, generatedPrompt, promise>>
    /\ UNCHANGED outsideBatch

\* /api/generate answered with an image: processMonthGeneration returns, the
\* batch pushes the result and reports progress.
GenerateResolves(resp) ==
    /\ pc = "generate"
    /\ generateImageClient(resp).returned
    /\ calls' = Settle(calls, resp)
    /\ results' = Append(results,
                         SuccessEntry(months[i + 1].index,
                                      MonthGenerationResult(generateImageClient(resp).value,
                                                            generatedPrompt[1])))
    /\ progressCalls' = Notify(progressCalls, Progress(i + 1, Len(months), Null))
    /\ PosterOnProgress(Progress(i + 1, Len(months), Null))
    /\ i' = i + 1
    /\ pc' = "for"
    /\ UNCHANGED <<months, baseStyleImageUrl, onProgress, api, generatedPrompt, promise>>
    /\ UNCHANGED outsideBatch

\* generateImageClient threw: processMonthGeneration rejects, the batch catches.
GenerateRejects(resp) ==
    /\ pc = "generate"
    /\ ~generateImageClient(resp).returned
    /\ calls' = Settle(calls, resp)
    /\ Catch(generateImageClient(resp).value)
    /\ UNCHANGED <<months, baseStyleImageUrl, onProgress, api, generatedPrompt>>
    /\ UNCHANGED outsideBatch

----------------------------------------------------------------------------
(* calendarService with an onProgress that may throw *)

\* What the callback throws.
CallbackError == Err("onProgress failed")

\* The report before an item throws: it is outside of try, so the batch rejects.
StartItemCallbackThrows ==
    /\ pc = "for"
    /\ i < Len(months)
    /\ onProgress
    /\ progressCalls' = Append(progressCalls,
                               Progress(i, Len(months), Some(months[i + 1].index)))
    /\ promise' = "rejected"
    /\ pc' = "thrown"
    /\ UNCHANGED <<months, baseStyleImageUrl, onProgress, api, i, results,
                   generatedPrompt, calls>>
    /\ UNCHANGED <<outsideBatch, callbackVars>>

\* The catch block whose report throws: the error leaves processBatchGeneration.
CatchCallbackThrows(error) ==
    /\ results' = Append(results, FailureEntry(months[i + 1].index, ToError(error)))
    /\ progressCalls' = Append(progressCalls, Progress(i + 1, Len(months), Null))
    /\ promise' = "rejected"
    /\ pc' = "thrown"
    /\ UNCHANGED <<i, callbackVars>>

\* analyzeInputClient threw and the report of the catch block throws.
AnalyzeRejectsCallbackThrows(resp) ==
    /\ pc = "analyze"
    /\ onProgress
    /\ ~analyzeInputClient(resp).returned
    /\ calls' = Settle(calls, resp)
    /\ CatchCallbackThrows(analyzeInputClient(resp).value)
    /\ UNCHANGED <<months, baseStyleImageUrl, onProgress, api, generatedPrompt>>
    /\ UNCHANGED outsideBatch

\* generateImageClient threw and the report of the catch block throws.
GenerateRejectsCallbackThrows(resp) ==
    /\ pc = "generate"
    /\ onProgress
    /\ ~generateImageClient(resp).returned
    /\ calls' = Settle(calls, resp)
    /\ CatchCallbackThrows(generateImageClient(resp).value)
    /\ UNCHANGED <<months, baseStyleImageUrl, onProgress, api, generatedPrompt>>
    /\ UNCHANGED outsideBatch

\* /api/generate answered with an image, the result is pushed and the report
\* after it throws inside try: the catch block pushes an entry of its own
\* and reports again; that report returns, or throws too (again).
GenerateResolvesCallbackThrows(resp, again) ==
    /\ pc = "generate"
    /\ onProgress
    /\ generateImageClient(resp).returned
    /\ calls' = Settle(calls, resp)
    /\ results' = Append(Append(results,
                                SuccessEntry(months[i + 1].index,
                                             MonthGenerationResult(generateImageClient(resp).value,
                                                                   generatedPrompt[1]))),
                         FailureEntry(months[i + 1].index, ToError(CallbackError)))
    /\ progressCalls' = Append(Append(progressCalls, Progress(i + 1, Len(months), Null)),
                               Progress(i + 1, Len(months), Null))
    /\ IF again
       THEN /\ promise' = "rejected"
            /\ pc' = "thrown"
            /\ i' = i
       ELSE /\ promise' = promise
            /\ pc' = "for"
            /\ i' = i + 1
    /\ UNCHANGED <<months, baseStyleImageUrl, onProgress, api, generatedPrompt>>
    /\ UNCHANGED <<outsideBatch, callbackVars>>

----------------------------------------------------------------------------
(* imageUtils: data URIs.  A data URI is a sequence of characters. *)

\* Longest byte sequence encoded.
MaxBytes == 3

StartsWith(s, p) == Len(s) >= Len(p) /\ SubSeq(s, 1, Len(p)) = p
\* The characters of s after the first n.
Drop(s, n) == SubSeq(s, n + 1, Len(s))
\* Position of the first c in s, 0 when there is none.
IndexOf(s, c) ==
    IF \E j \in DOMAIN s : s[j] = c
    THEN CHOOSE j \in DOMAIN s : s[j] = c /\ \A k \in 1..(j - 1) : s[k] # c
    ELSE 0

\* The base64 alphabet of Buffer.toString('base64').
Base64Alphabet ==
    << "A", "B", "C", "D", "E", "F", "G", "H", "I", "J", "K", "L", "M", "N", "O", "P",
       "Q", "R", "S", "T", "U", "V", "W", "X", "Y", "Z", "a", "b", "c", "d", "e", "f",
       "g", "h", "i", "j", "k", "l", "m", "n", "o", "p", "q", "r", "s", "t", "u", "v",
       "w", "x", "y", "z", "0", "1", "2", "3", "4", "5", "6", "7", "8", "9", "+", "/" >>
Base64Char(n) == Base64Alphabet[n + 1]

\* Buffer.from(uint8Array).toString('base64'): three bytes give four
\* characters, a rest of one or two bytes is padded with "=".
RECURSIVE Base64Encode(_)
Base64Encode(b) ==
    IF b = <<>> THEN <<>>
    ELSE IF Len(b) = 1 THEN
        LET n == b[1] * 16
        IN  <<Base64Char(n \div 64), Base64Char(n % 64), "=", "=">>
    ELSE IF Len(b) = 2 THEN
        LET n == (b[1] * 256 + b[2]) * 4
        IN  <<Base64Char(n \div 4096), Base64Char((n \div 64) % 64), Base64Char(n % 64), "=">>
    ELSE
        LET n == b[1] * 65536 + b[2] * 256 + b[3]
        IN  <<Base64Char(n \div 262144), Base64Char((n \div 4096) % 64),
              Base64Char((n \div 64) % 64), Base64Char(n % 64)>>
            \o Base64Encode(Drop(b, 3))

DataScheme == <<"d", "a", "t", "a", ":">>
DataImagePrefix == <<"d", "a", "t", "a", ":", "i", "m", "a", "g", "e", "/">>
Base64Marker == <<";", "b", "a", "s", "e", "6", "4", ",">>
\* The characters `.` does not match.
LineTerminators == {"\n", "\r"}

InvalidFormat == Throw(Err("Invalid data URI format"))

\* The common head of the two patterns, ^data:(image\/[^;]+);base64, : the
\* text after "data:image/" up to the first ";" is not empty and that ";"
\* starts ";base64,".  rest is what follows the match.
MatchHead(s) ==
    IF ~StartsWith(s, DataImagePrefix)
    THEN [matched |-> FALSE]
    ELSE LET after == Drop(s, Len(DataImagePrefix))
             semi == IndexOf(after, ";")
         IN  IF semi < 2 \/ ~StartsWith(Drop(after, semi - 1), Base64Marker)
             THEN [matched |-> FALSE]
             ELSE [matched |-> TRUE,
                   type |-> SubSeq(s, Len(DataScheme) + 1, Len(DataImagePrefix) + semi - 1),
                   rest |-> Drop(after, semi - 1 + Len(Base64Marker))]

\* Variant of extractBase64FromDataUri: the input is returned when it does not match.
extractBase64FromDataUriOrInput(uri) ==
    LET m == MatchHead(uri)
    IN  IF m.matched /\ m.rest # <<>> /\ \A j \in DOMAIN m.rest : m.rest[j] \notin LineTerminators
        THEN Return(m.rest)
        ELSE Return(uri)

\* dataUri.match(/^data:image\/[^;]+;base64,(.+)$/)
extractBase64FromDataUri(uri) ==
    LET m == MatchHead(uri)
    IN  IF m.matched /\ m.rest # <<>> /\ \A j \in DOMAIN m.rest : m.rest[j] \notin LineTerminators
        THEN Return(m.rest)
        ELSE InvalidFormat

\* dataUri.match(/^data:(image\/[^;]+);base64,/)
extractMediaTypeFromDataUri(uri) ==
    LET m == MatchHead(uri)
    IN  IF m.matched THEN Return(m.type) ELSE InvalidFormat

\* Variant of uint8ArrayToDataUri: the template lacks ";base64".
uint8ArrayToDataUriNoMarker(uint8Array, type) ==
    DataScheme \o type \o <<",">> \o Base64Encode(uint8Array)

\* `data:${mediaType};base64,${base64String}`
uint8ArrayToDataUri(uint8Array, type) ==
    DataScheme \o type \o Base64Marker \o Base64Encode(uint8Array)

\* uint8ArrayToDataUri is applied to the input.
Encode ==
    /\ codecIn # Null
    /\ dataUri = Null
    /\ dataUri' = Some(uint8ArrayToDataUri(codecIn[1].bytes, codecIn[1].mediaType))
    /\ UNCHANGED <<codecIn, base64Data, mediaType, batchVars, posterVars, storeVars, routeVars,
                   uploaderVars>>

\* extractBase64FromDataUri is applied to the data URI.
ExtractBase64 ==
    /\ dataUri # Null
    /\ base64Data = Null
    /\ base64Data' = Some(extractBase64FromDataUri(dataUri[1]))
    /\ UNCHANGED <<codecIn, dataUri, mediaType, batchVars, posterVars, storeVars, routeVars,
                   uploaderVars>>

\* extractMediaTypeFromDataUri is applied to the data URI.
ExtractMediaType ==
    /\ dataUri # Null
    /\ mediaType = Null
    /\ mediaType' = Some(extractMediaTypeFromDataUri(dataUri[1]))
    /\ UNCHANGED <<codecIn, dataUri, base64Data, batchVars, posterVars, storeVars, routeVars,
                   uploaderVars>>

\* Inputs of the codec.
ByteValues == {0, 1, 97, 255}
ByteSeqs == SeqUpTo(ByteValues, MaxBytes)
ImagePng == <<"i", "m", "a", "g", "e", "/", "p", "n", "g">>
MediaTypes == {ImagePng, <<"i", "m", "a", "g", "e", "/", "j", "p", "e", "g">>}
\* Strings put together from right and wrong pieces of a data URI.
UriSchemes == {DataScheme, <<"d", "a", "t", ":">>, <<>>}
UriTypes == {<<"i", "m", "a", "g", "e">>, <<"t", "e", "x", "t">>, <<>>}
UriSlashes == {<<"/">>, <<>>}
UriSubtypes == {<<"p", "n", "g">>, <<"p", ";", "g">>, <<>>}
UriMarkers == {Base64Marker, <<";", "b", "a", "s", "e", "6", "4">>, <<",">>}
UriPayloads == {<<"Q", "Q", "=", "=">>, <<"Q", "\n", "Q", "=">>, <<>>}
NotADataUri == <<"n", "o", "t", "-", "a", "-", "d", "a", "t", "a", "-", "u", "r", "i">>
CandidateUris ==
    {NotADataUri} \cup
    { a \o b \o c \o d \o e \o f :
        a \in UriSchemes, b \in UriTypes, c \in UriSlashes,
        d \in UriSubtypes, e \in UriMarkers, f \in UriPayloads }

CodecIdle ==
    /\ codecIn = Null
    /\ dataUri = Null
    /\ base64Data = Null
    /\ mediaType = Null

\* No batch was started; the calls of one would be answered from answers.
NoBatch(answers) ==
    /\ months = <<>>
    /\ api = answers
    /\ baseStyleImageUrl = "data:image/png;base64,U1RZTEU="
    /\ onProgress = FALSE
    /\ pc = "idle"
    /\ i = 0
    /\ results = <<>>
    /\ generatedPrompt = Null
    /\ progressCalls = <<>>
    /\ calls = <<>>
    /\ promise = "pending"

BatchIdle == NoBatch(CoreApi)

----------------------------------------------------------------------------
(* Inputs *)

\* A user image as WrappedPoster stores it (a data url), as a string.
UserImage == <<"data:image/jpeg;base64,", "U", "1">>
Texts == SeqUpTo(Chars, MaxTextLen)
Indices == {0, 1}

MonthGenerationData(baseImage, editPrompt) ==
    [baseImage |-> baseImage, editPrompt |-> editPrompt]

\* Every month a single-month batch may hold.
RichData ==
    {MonthGenerationData(b, t) : b \in {Null, Some(<<>>), Some(UserImage)}, t \in Texts}
\* The two kinds of month of a longer batch.
CoreData ==
    {MonthGenerationData(Some(UserImage), <<>>), MonthGenerationData(Null, <<" ", "a">>)}

Items(D) == [data : D, index : Indices]

----------------------------------------------------------------------------
(* useUploadImageProcessor, the hook WrappedPoster processes uploads with *)

ALLOWED_TYPES == {"image/jpeg", "image/jpg", "image/png", "image/webp", "image/gif"}
MAX_FILE_SIZE == 10 * 1024 * 1024

ImageValidationError(message, code) == [message |-> message, code |-> code]

\* Variant of validateImage: the size is not looked at.
validateImageTypeOnly(f) ==
    IF f.type \notin ALLOWED_TYPES
    THEN Some(ImageValidationError("Invalid file type", "INVALID_TYPE"))
    ELSE Null

\* The error of a file, or Null: the type is looked at first.
validateImage(f) ==
    IF f.type \notin ALLOWED_TYPES
    THEN Some(ImageValidationError("Invalid file type", "INVALID_TYPE"))
    ELSE IF f.size > MAX_FILE_SIZE
    THEN Some(ImageValidationError("File size exceeds 10MB limit", "FILE_TOO_LARGE"))
    ELSE Null

\* What fileToDataUrl rejects with, and what the catch block of processImage
\* makes of a thrown value without a code.
ReadErrors ==
    { ImageValidationError("Failed to convert file to valid image data URI", "INVALID_FORMAT"),
      ImageValidationError("Failed to read file", "READ_ERROR"),
      ImageValidationError("An unexpected error occurred while processing the image",
                           "READ_ERROR") }

\* The files a user may pick: of an allowed type or not, of the largest
\* size allowed or one byte more.
Files == [type : {"image/png", "image/svg+xml"}, size : {MAX_FILE_SIZE, MAX_FILE_SIZE + 1}]

ProcessorInitial ==
    /\ isProcessing = FALSE
    /\ imageError = Null
    /\ file = Null
    /\ reading = Null
    /\ processed = "none"

\* The hook while the FileReader reads f.
Processing(f) ==
    /\ isProcessing = TRUE
    /\ imageError = Null
    /\ file = Some(f)
    /\ reading = Some(f)
    /\ processed = "pending"

clearError ==
    /\ imageError' = Null
    /\ UNCHANGED <<isProcessing, file, reading, processed>>

\* processImage(f) up to the await of fileToDataUrl.  A file that is not
\* valid never gets there: the promise returned is rejected already.
processImage(f) ==
    /\ file' = Some(f)
    /\ IF validateImage(f) # Null
       THEN /\ isProcessing' = FALSE
            /\ imageError' = validateImage(f)
            /\ reading' = Null
            /\ processed' = "rejected"
       ELSE /\ isProcessing' = TRUE
            /\ imageError' = Null
            /\ reading' = Some(f)
            /\ processed' = "pending"

\* The FileReader loaded a data URI of an image: processImage resolves.
ProcessImageResolves ==
    /\ isProcessing' = FALSE
    /\ processed' = "resolved"
    /\ UNCHANGED <<imageError, file, reading>>

\* fileToDataUrl rejected, or something else threw: the catch block.
ProcessImageRejects(err) ==
    /\ isProcessing' = FALSE
    /\ imageError' = Some(err)
    /\ processed' = "rejected"
    /\ UNCHANGED <<file, reading>>

----------------------------------------------------------------------------
(* WrappedPoster: the months of the calendar, their editor and the batch *)

\* Number of months of the calendar (MONTHS has twelve).
NumMonths == 2

MonthData(inputType, userInput, baseImage, prompt, resultImage, status) ==
    [ inputType |-> inputType, userInput |-> userInput, baseImage |-> baseImage,
      generatedPrompt |-> prompt, resultImage |-> resultImage, status |-> status ]

\* A month as useState creates it.
InitialMonth == MonthData(Null, <<>>, Null, "", Null, "idle")

\* The component after mounting.
PosterInitial ==
    /\ monthsData = [m \in 1..NumMonths |-> InitialMonth]
    /\ selectedBaseStyle = Null
    /\ isProcessingAll = FALSE
    /\ batchProgress = Progress(0, 0, Null)
    /\ generationError = Null
    /\ selectedMonth = Null
    /\ upload = Null
    /\ uploadError = Null
    /\ ProcessorInitial

\* month.baseImage || month.userInput.trim()
HasContent(month) == Truthy(month.baseImage) \/ trim(month.userInput) # <<>>

\* Variant of allMonthsReady: the text is not trimmed.
allMonthsReadyNoTrim ==
    \A m \in DOMAIN monthsData :
        Truthy(monthsData[m].baseImage) \/ monthsData[m].userInput # <<>>

allMonthsReady == \A m \in DOMAIN monthsData : HasContent(monthsData[m])
readyCount == Cardinality({m \in DOMAIN monthsData : HasContent(monthsData[m])})

\* The base styles BaseStyleSelector may hand over: none, one whose
\* imageUrl is empty, one with an image.
BaseStyles ==
    {Null, Some([imageUrl |-> ""]), Some([imageUrl |-> "data:image/png;base64,U1RZTEU="])}

handleBaseStyleSelect(baseStyle) ==
    /\ selectedBaseStyle' = baseStyle
    /\ UNCHANGED <<batchVars, codecVars, storeVars, routeVars, uploaderVars, callbackVars, isProcessingAll, generationError,
                   selectedMonth, upload, uploadError>>
    /\ UNCHANGED processorVars

\* The click on Generate, up to the await of processBatchGeneration; the
\* button is disabled while a batch runs.  The call made starts the batch
\* (results = [], i = 0) with the months as they are now.
handleGenerateCalendar ==
    /\ ~isProcessingAll
    /\ pc = "idle"
    /\ IF selectedBaseStyle = Null \/ selectedBaseStyle[1].imageUrl = ""
       THEN /\ generationError' = Some([message |-> "Please select a base style avatar"])
            /\ UNCHANGED <<batchVars, callbackVars, isProcessingAll>>
       ELSE IF ~allMonthsReady
       THEN /\ generationError' = Some([message |-> "Please add content for all 12 months",
                                        ready |-> readyCount])
            /\ UNCHANGED <<batchVars, callbackVars, isProcessingAll>>
       ELSE /\ generationError' = Null
            /\ isProcessingAll' = TRUE
            /\ batchProgress' = Progress(0, NumMonths, Null)
            /\ months' = [m \in DOMAIN monthsData |->
                            [ data  |-> MonthGenerationData(monthsData[m].baseImage,
                                                            monthsData[m].userInput),
                              index |-> m - 1 ]]
            /\ baseStyleImageUrl' = selectedBaseStyle[1].imageUrl
            /\ onProgress' = TRUE
            /\ pc' = "for"
            /\ i' = 0
            /\ results' = <<>>
            /\ generatedPrompt' = Null
            /\ progressCalls' = <<>>
            /\ calls' = <<>>
            /\ promise' = "pending"
            /\ UNCHANGED <<api, monthsData>>
    /\ UNCHANGED <<codecVars, storeVars, routeVars, uploaderVars, selectedBaseStyle, selectedMonth, upload, uploadError>>
    /\ IF selectedBaseStyle # Null /\ selectedBaseStyle[1].imageUrl # "" /\ allMonthsReady
       THEN clearError
       ELSE UNCHANGED processorVars

\* One turn of `for (const { index, result, error } of batchResult.results)`.
ApplyEntry(data, entry) ==
    IF entry.result # Null
    THEN [data EXCEPT ![entry.index + 1].resultImage = Some(entry.result[1].resultImageUrl),
                      ![entry.index + 1].generatedPrompt = entry.result[1].generatedPrompt,
                      ![entry.index + 1].status = "completed"]
    ELSE IF entry.error # Null
    THEN [data EXCEPT ![entry.index + 1].status = "error"]
    ELSE data

\* Variant of ApplyResults: only the last entry is applied.
ApplyResultsLastOnly(data, entries) ==
    IF entries = <<>> THEN data ELSE ApplyEntry(data, entries[Len(entries)])

RECURSIVE ApplyResults(_, _)
ApplyResults(data, entries) ==
    IF entries = <<>> THEN data
    ELSE ApplyResults(ApplyEntry(data, Head(entries)), Tail(entries))

\* handleGenerateCalendar after the await: the results are written to the
\* months and the batch is over.
FinishBatch ==
    /\ isProcessingAll
    /\ pc = "returned"
    /\ monthsData' = ApplyResults(monthsData, results)
    /\ isProcessingAll' = FALSE
    /\ batchProgress' = Progress(0, 0, Null)
    /\ pc' = "idle"
    /\ UNCHANGED <<months, baseStyleImageUrl, onProgress, api, i, results, generatedPrompt,
                   progressCalls, calls, promise>>
    /\ UNCHANGED <<codecVars, storeVars, routeVars, uploaderVars, selectedBaseStyle, generationError, selectedMonth, upload,
                   uploadError>>
    /\ UNCHANGED processorVars

\* Variant of SelectMonth: the tile is not disabled during a batch.
SelectMonthDuringBatch(m) ==
    /\ selectedMonth = Null
    /\ selectedMonth' = Some(m)
    /\ UNCHANGED <<batchVars, codecVars, storeVars, routeVars, uploaderVars, callbackVars, selectedBaseStyle, isProcessingAll,
                   generationError, upload, uploadError>>
    /\ UNCHANGED processorVars

\* A tile is clicked: the editor opens on month m.  The open editor covers
\* the tiles.
SelectMonth(m) ==
    /\ ~isProcessingAll
    /\ selectedMonth = Null
    /\ selectedMonth' = Some(m)
    /\ UNCHANGED <<batchVars, codecVars, storeVars, routeVars, uploaderVars, callbackVars, selectedBaseStyle, isProcessingAll,
                   generationError, upload, uploadError>>
    /\ UNCHANGED processorVars

\* The close button of the editor.
CloseEditor ==
    /\ selectedMonth # Null
    /\ selectedMonth' = Null
    /\ UNCHANGED <<batchVars, codecVars, storeVars, routeVars, uploaderVars, callbackVars, selectedBaseStyle, isProcessingAll,
                   generationError, upload, uploadError>>
    /\ UNCHANGED processorVars

\* The Cancel button of the editor.
CancelEditor ==
    /\ selectedMonth # Null
    /\ selectedMonth' = Null
    /\ generationError' = Null
    /\ uploadError' = Null
    /\ UNCHANGED <<batchVars, codecVars, storeVars, routeVars, uploaderVars, callbackVars, selectedBaseStyle, isProcessingAll,
                   upload>>
    /\ clearError

\* The Save button, enabled when the month has content.
handleSave ==
    /\ selectedMonth # Null
    /\ HasContent(monthsData[selectedMonth[1] + 1])
    /\ IF ~HasContent(monthsData[selectedMonth[1] + 1])
       THEN /\ generationError' = Some([message |-> "Please upload an image or enter a description"])
            /\ UNCHANGED <<selectedMonth, uploadError>>
       ELSE /\ selectedMonth' = Null
            /\ generationError' = Null
            /\ uploadError' = Null
    /\ UNCHANGED <<batchVars, codecVars, storeVars, routeVars, uploaderVars, callbackVars, selectedBaseStyle, isProcessingAll,
                   upload>>
    /\ IF HasContent(monthsData[selectedMonth[1] + 1]) THEN clearError ELSE UNCHANGED processorVars

\* The inputs of the editor are shown while the month has no result.
InputsShown ==
    /\ selectedMonth # Null
    /\ ~Truthy(monthsData[selectedMonth[1] + 1].resultImage)

\* The values of the select: "", "image", "text".
InputTypes == {"", "image", "text"}

handleInputTypeChange(type) ==
    /\ InputsShown
    /\ monthsData' =
          [monthsData EXCEPT ![selectedMonth[1] + 1] =
              [@ EXCEPT !.inputType = Some(type),
                        !.userInput = IF type = "image" THEN <<>> ELSE @,
                        !.baseImage = IF type = "text" THEN Null ELSE @]]
    /\ UNCHANGED <<batchVars, codecVars, storeVars, routeVars, uploaderVars, batchProgress, selectedBaseStyle, isProcessingAll,
                   generationError, selectedMonth, upload, uploadError>>
    /\ UNCHANGED processorVars

\* What is typed into the textarea.
TypedTexts == {<<>>, <<" ">>, <<"a">>}

\* onChange of the textarea, shown for the input type 'text'.
TypeText(text) ==
    /\ InputsShown
    /\ monthsData[selectedMonth[1] + 1].inputType = Some("text")
    /\ monthsData' = [monthsData EXCEPT ![selectedMonth[1] + 1].userInput = text]
    /\ UNCHANGED <<batchVars, codecVars, storeVars, routeVars, uploaderVars, batchProgress, selectedBaseStyle, isProcessingAll,
                   generationError, selectedMonth, upload, uploadError>>
    /\ UNCHANGED processorVars

\* handleImageUpload up to the await of processImage.  The file input is
\* shown for the input type 'image' of a month without an image and is
\* disabled while an image is processed.
handleImageUpload(f) ==
    /\ InputsShown
    /\ monthsData[selectedMonth[1] + 1].inputType = Some("image")
    /\ ~Truthy(monthsData[selectedMonth[1] + 1].baseImage)
    /\ ~isProcessing
    /\ upload = Null
    /\ upload' = Some(selectedMonth[1])
    /\ uploadError' = Null
    /\ processImage(f)
    /\ UNCHANGED <<batchVars, codecVars, storeVars, routeVars, uploaderVars, callbackVars, selectedBaseStyle, isProcessingAll,
                   generationError, selectedMonth>>

\* Variant of UploadCompletes: the text of the month is kept.
UploadCompletesKeepsText ==
    /\ upload # Null
    /\ processed = "pending"
    /\ ProcessImageResolves
    /\ monthsData' = [monthsData EXCEPT ![upload[1] + 1] =
                         [@ EXCEPT !.baseImage = Some(UserImage),
                                   !.inputType = Some("image")]]
    /\ upload' = Null
    /\ UNCHANGED <<batchVars, codecVars, storeVars, routeVars, uploaderVars, batchProgress, selectedBaseStyle, isProcessingAll,
                   generationError, selectedMonth, uploadError>>

\* processImage resolved: handleImageUpload goes on with the month that was
\* selected when it was called.
UploadCompletes ==
    /\ upload # Null
    /\ processed = "pending"
    /\ ProcessImageResolves
    /\ monthsData' = [monthsData EXCEPT ![upload[1] + 1] =
                         [@ EXCEPT !.baseImage = Some(UserImage),
                                   !.inputType = Some("image"),
                                   !.userInput = <<>>]]
    /\ upload' = Null
    /\ UNCHANGED <<batchVars, codecVars, storeVars, routeVars, uploaderVars, batchProgress, selectedBaseStyle, isProcessingAll,
                   generationError, selectedMonth, uploadError>>

\* error?.message || 'Failed to upload image. Please try again.': the
\* message of the error the hook held when the handler was created, or the
\* default.
UploadMessages == {"Failed to read file", "Failed to upload image. Please try again."}

\* processImage rejected, now or before it returned: the catch block of
\* handleImageUpload.
UploadFails(message) ==
    /\ upload # Null
    /\ IF processed = "pending"
       THEN \E err \in ReadErrors : ProcessImageRejects(err)
       ELSE UNCHANGED processorVars
    /\ upload' = Null
    /\ uploadError' = Some(message)
    /\ UNCHANGED <<batchVars, codecVars, storeVars, routeVars, uploaderVars, callbackVars, selectedBaseStyle, isProcessingAll,
                   generationError, selectedMonth>>

\* The remove button, shown on the image of a month of input type 'image'.
handleImageRemove ==
    /\ InputsShown
    /\ monthsData[selectedMonth[1] + 1].inputType = Some("image")
    /\ Truthy(monthsData[selectedMonth[1] + 1].baseImage)
    /\ monthsData' = [monthsData EXCEPT ![selectedMonth[1] + 1] =
                         [@ EXCEPT !.baseImage = Null, !.inputType = Null]]
    /\ uploadError' = Null
    /\ UNCHANGED <<batchVars, codecVars, storeVars, routeVars, uploaderVars, batchProgress, selectedBaseStyle, isProcessingAll,
                   generationError, selectedMonth, upload>>
    /\ clearError

----------------------------------------------------------------------------
(* Base styles: the routes of /api/base-styles over the collection
   baseStyleImages.  The store answers; request bodies are JSON objects
   whose fields are strings or missing. *)

\* Most documents ever inserted.
MaxDocs == 2
\* Latest time of the clock.
MaxClock == 3

\* The values of a field: undefined, null, a string (a sequence of characters).
Undefined == [type |-> "undefined", string |-> <<>>]
JsNull == [type |-> "null", string |-> <<>>]
Str(s) == [type |-> "string", string |-> s]
\* !value
Falsy(value) == value.type # "string" \/ value.string = <<>>

\* An id of a request: the k-th ObjectId the store generates (0 and those
\* not generated yet are well formed too), or a string that is no ObjectId.
Oid(k) == [wellFormed |-> TRUE, value |-> k]
MalformedId == [wellFormed |-> FALSE, value |-> 0]
\* new ObjectId(id) throws unless id is well formed.
ObjectId(id) == IF id.wellFormed THEN Return(id.value) ELSE Throw(Err("BSONError"))

\* How a field value is written: undefined is left out when the connection
\* ignores undefined and is written as null otherwise.
Serialized(value) ==
    IF value.type = "undefined" /\ ~ignoreUndefined THEN JsNull ELSE value

BaseStyleImage(name, imageUrl, thumbnailUrl, createdAt, updatedAt) ==
    [ name |-> name, imageUrl |-> imageUrl, thumbnailUrl |-> thumbnailUrl,
      createdAt |-> createdAt, updatedAt |-> updatedAt ]

\* collection.findOne({ _id })
findOne(oid) == IF oid \in DOMAIN collection THEN collection[oid] ELSE Null

\* The document with the fields of $set written over it; a field left out
\* keeps its value.
SetFields(doc, data, updatedAt) ==
    LET put(old, new) == IF Serialized(new).type = "undefined" THEN old ELSE Serialized(new)
    IN  BaseStyleImage(put(doc.name, data.name), put(doc.imageUrl, data.imageUrl),
                       put(doc.thumbnailUrl, data.thumbnailUrl), doc.createdAt, updatedAt)

WithId(doc, oid) ==
    [ _id |-> oid, name |-> doc.name, imageUrl |-> doc.imageUrl,
      thumbnailUrl |-> doc.thumbnailUrl, createdAt |-> doc.createdAt,
      updatedAt |-> doc.updatedAt ]

Answer(method, id, body, status, json) ==
    [method |-> method, id |-> id, body |-> body, status |-> status, json |-> json]

NoBody == [name |-> Undefined, imageUrl |-> Undefined, thumbnailUrl |-> Undefined]

\* POST /api/base-styles
POST(body) ==
    /\ inserted < MaxDocs
    /\ now < MaxClock
    /\ IF Falsy(body.name) \/ Falsy(body.imageUrl)
       THEN /\ response' = Some(Answer("POST", Null, body, 400,
                                       [error |-> "Name and imageUrl are required"]))
            /\ UNCHANGED <<collection, inserted, now>>
       ELSE IF ~StartsWith(body.imageUrl.string, DataImagePrefix)
       THEN /\ response' = Some(Answer("POST", Null, body, 400,
                                       [error |-> "imageUrl must be a base64 data URI (e.g., data:image/jpeg;base64,...)"]))
            /\ UNCHANGED <<collection, inserted, now>>
       ELSE LET newImage == BaseStyleImage(Serialized(body.name), Serialized(body.imageUrl),
                                           Serialized(body.thumbnailUrl), now + 1, now + 1)
            IN  /\ now' = now + 1
                /\ inserted' = inserted + 1
                /\ collection' = [collection EXCEPT ![inserted + 1] = Some(newImage)]
                /\ response' = Some(Answer("POST", Null, body, 201,
                                           WithId(BaseStyleImage(body.name, body.imageUrl,
                                                                 body.thumbnailUrl, now + 1, now + 1),
                                                  inserted + 1)))
    /\ UNCHANGED <<ignoreUndefined, batchVars, codecVars, posterVars, routeVars,
                   uploaderVars>>

\* GET /api/base-styles/{id}
GET(id) ==
    /\ IF ~ObjectId(id).returned
       THEN response' = Some(Answer("GET", Some(id), NoBody, 500,
                                    [error |-> "Failed to fetch base style image"]))
       ELSE IF findOne(ObjectId(id).value) = Null
       THEN response' = Some(Answer("GET", Some(id), NoBody, 404,
                                    [error |-> "Base style image not found"]))
       ELSE response' = Some(Answer("GET", Some(id), NoBody, 200,
                                    WithId(findOne(ObjectId(id).value)[1], ObjectId(id).value)))
    /\ UNCHANGED <<collection, inserted, now, ignoreUndefined, batchVars, codecVars, posterVars, routeVars,
                   uploaderVars>>

\* PUT /api/base-styles/{id}
PUT(id, body) ==
    /\ now < MaxClock
    /\ IF ~Falsy(body.imageUrl) /\ ~StartsWith(body.imageUrl.string, DataImagePrefix)
       THEN /\ response' = Some(Answer("PUT", Some(id), body, 400,
                                       [error |-> "imageUrl must be a base64 data URI"]))
            /\ UNCHANGED <<collection, now>>
       ELSE IF ~ObjectId(id).returned
       THEN /\ response' = Some(Answer("PUT", Some(id), body, 500,
                                       [error |-> "Failed to update base style image"]))
            /\ UNCHANGED <<collection, now>>
       ELSE IF findOne(ObjectId(id).value) = Null
       THEN /\ response' = Some(Answer("PUT", Some(id), body, 404,
                                       [error |-> "Base style image not found"]))
            /\ UNCHANGED <<collection, now>>
       ELSE LET oid == ObjectId(id).value
                updated == SetFields(collection[oid][1], body, now + 1)
            IN  /\ now' = now + 1
                /\ collection' = [collection EXCEPT ![oid] = Some(updated)]
                /\ response' = Some(Answer("PUT", Some(id), body, 200, WithId(updated, oid)))
    /\ UNCHANGED <<inserted, ignoreUndefined, batchVars, codecVars, posterVars, routeVars,
                   uploaderVars>>

\* DELETE /api/base-styles/{id}
DELETE(id) ==
    /\ IF ~ObjectId(id).returned
       THEN /\ response' = Some(Answer("DELETE", Some(id), NoBody, 500,
                                       [error |-> "Failed to delete base style image"]))
            /\ UNCHANGED collection
       ELSE IF findOne(ObjectId(id).value) = Null
       THEN /\ response' = Some(Answer("DELETE", Some(id), NoBody, 404,
                                       [error |-> "Base style image not found"]))
            /\ UNCHANGED collection
       ELSE /\ response' = Some(Answer("DELETE", Some(id), NoBody, 200,
                                       [success |-> TRUE, message |-> "Base style image deleted"]))
            /\ collection' = [collection EXCEPT ![ObjectId(id).value] = Null]
    /\ UNCHANGED <<inserted, now, ignoreUndefined, batchVars, codecVars, posterVars, routeVars,
                   uploaderVars>>

\* The requests made.
StyleUrl == DataImagePrefix \o <<"a">>
OtherStyleUrl == DataImagePrefix \o <<"b">>
NoDataUrl == <<"h", "t", "t", "p">>
PostBodies ==
    [ name : {Undefined, Str(<<"A">>)},
      imageUrl : {Undefined, Str(NoDataUrl), Str(StyleUrl)},
      thumbnailUrl : {Undefined} ]
PutBodies ==
    [ name : {Undefined, Str(<<"B">>)},
      imageUrl : {Undefined, Str(<<>>), Str(NoDataUrl), Str(OtherStyleUrl)},
      thumbnailUrl : {Undefined, Str(OtherStyleUrl)} ]
RequestIds == {Oid(k) : k \in 0..MaxDocs} \cup {MalformedId}

\* The empty collection.
StoreInitial ==
    /\ collection = [k \in 1..MaxDocs |-> Null]
    /\ inserted = 0
    /\ now = 0
    /\ ignoreUndefined = FALSE
    /\ response = Null

----------------------------------------------------------------------------
(* The routes POST /api/analyze and POST /api/generate behind
   rateLimitMiddleware.  A request carries a JSON object whose fields are
   strings or missing, or a body that is no JSON; checkRateLimit and the AI
   capability (analyzeInput, generateImage) answer as they please. *)

RATE_LIMIT_REQUESTS == 10
RATE_LIMIT_WINDOW == 60

\* s.includes(sub)
Includes(s, sub) ==
    \E k \in 0..(Len(s) - Len(sub)) : SubSeq(s, k + 1, k + Len(sub)) = sub

DataUriWords == <<"d", "a", "t", "a", " ", "U", "R", "I">>
TextType == <<"t", "e", "x", "t">>
ImageType == <<"i", "m", "a", "g", "e">>

\* What rateLimiter.limit may answer: allowed with requests left or with
\* none, exceeded, or an error (the store cannot be reached).
LimiterOutcomes ==
    { Return([success |-> TRUE, limit |-> RATE_LIMIT_REQUESTS, remaining |-> r,
              reset |-> RATE_LIMIT_WINDOW]) : r \in {0, RATE_LIMIT_REQUESTS - 1} }
    \cup { Return([success |-> FALSE, limit |-> RATE_LIMIT_REQUESTS, remaining |-> 0,
                   reset |-> RATE_LIMIT_WINDOW]),
           Throw(Err(<<"f", "e", "t", "c", "h", " ", "f", "a", "i", "l", "e", "d">>)) }

NoHeaders == [h \in {} |-> 0]

getRateLimitHeaders(result) ==
    IF result = Null
    THEN NoHeaders
    ELSE [h \in {"X-RateLimit-Limit", "X-RateLimit-Remaining", "X-RateLimit-Reset"} |->
            CASE h = "X-RateLimit-Limit" -> result[1].limit
              [] h = "X-RateLimit-Remaining" -> result[1].remaining
              [] h = "X-RateLimit-Reset" -> result[1].reset]

NextResponse(status, headers, json) == [status |-> status, headers |-> headers, json |-> json]

\* The 429 of rateLimitMiddleware.
RateLimitExceeded(result) ==
    NextResponse(429,
                 [h \in {"X-RateLimit-Limit", "X-RateLimit-Remaining", "X-RateLimit-Reset",
                         "Retry-After"} |->
                     CASE h = "X-RateLimit-Limit" -> result.limit
                       [] h = "X-RateLimit-Remaining" -> result.remaining
                       [] h = "X-RateLimit-Reset" -> result.reset
                       [] h = "Retry-After" -> result.reset],
                 "Rate limit exceeded. Please try again later.")

\* Variant of rateLimitMiddleware: a client over its limit is let through.
rateLimitMiddlewareNeverBlocks(outcome) ==
    IF outcome.returned
    THEN [rateLimitResponse |-> Null, rateLimitResult |-> Some(outcome.value)]
    ELSE [rateLimitResponse |-> Null, rateLimitResult |-> Null]

\* Variant of rateLimitMiddleware: an error of the check is answered 500.
rateLimitMiddlewareFailsClosed(outcome) ==
    IF ~outcome.returned
    THEN [rateLimitResponse |-> Some(NextResponse(500, NoHeaders, "Rate limit check failed")),
          rateLimitResult |-> Null]
    ELSE IF ~outcome.value.success
    THEN [rateLimitResponse |-> Some(RateLimitExceeded(outcome.value)),
          rateLimitResult |-> Null]
    ELSE [rateLimitResponse |-> Null, rateLimitResult |-> Some(outcome.value)]

\* rateLimitMiddleware, given what checkRateLimit did.
rateLimitMiddleware(outcome) ==
    IF ~outcome.returned
    THEN [rateLimitResponse |-> Null, rateLimitResult |-> Null]
    ELSE IF ~outcome.value.success
    THEN [rateLimitResponse |-> Some(RateLimitExceeded(outcome.value)),
          rateLimitResult |-> Null]
    ELSE [rateLimitResponse |-> Null, rateLimitResult |-> Some(outcome.value)]

\* The message of the 400 a body is rejected with, or Null.
AnalyzeValidation(body) ==
    IF Falsy(body.type) \/ Falsy(body.content)
    THEN Some("type and content are required")
    ELSE IF body.type.string # TextType /\ body.type.string # ImageType
    THEN Some("type must be either \"text\" or \"image\"")
    ELSE IF body.type.string = ImageType /\ ~StartsWith(body.content.string, DataImagePrefix)
    THEN Some("image content must be a base64 data URI (e.g., data:image/jpeg;base64,...)")
    ELSE Null

GenerateValidation(body) ==
    IF Falsy(body.baseImageUrl) \/ Falsy(body.prompt)
    THEN Some("baseImageUrl and prompt are required")
    ELSE IF ~StartsWith(body.baseImageUrl.string, DataImagePrefix)
    THEN Some("baseImageUrl must be a base64 data URI (e.g., data:image/jpeg;base64,...)")
    ELSE IF trim(body.prompt.string) = <<>>
    THEN Some("prompt cannot be empty")
    ELSE Null

Validation(req) ==
    IF req.route = "analyze" THEN AnalyzeValidation(req.body[1]) ELSE GenerateValidation(req.body[1])

\* Variant of ErrorStatus: every failure is a 500.
ErrorStatusAlways500(thrown) == 500

\* The status the catch block answers a thrown value with.
ErrorStatus(thrown) ==
    IF thrown.isError /\ Includes(thrown.message, DataUriWords) THEN 400 ELSE 500

\* What request.json() throws on a body that is no JSON.
SyntaxError == Err(<<"U", "n", "e", "x", "p", "e", "c", "t", "e", "d", " ", "e", "n", "d", " ", "o", "f", " ", "J", "S", "O", "N", " ", "i", "n", "p", "u", "t">>)

\* What the AI capability may do: return a string, or throw an Error that
\* speaks of the data URI, one that does not, or something that is no Error.
AiOutcomes ==
    { Return("generated"),
      Throw(Err(<<"I", "n", "v", "a", "l", "i", "d", " ", "d", "a", "t", "a", " ", "U", "R", "I", " ", "f", "o", "r", "m", "a", "t">>)),
      Throw(Err(<<"i", "n", "v", "a", "l", "i", "d", " ", "d", "a", "t", "a", " ", "u", "r", "i">>)),
      Throw(Err(<<"N", "o", " ", "i", "m", "a", "g", "e", " ", "w", "a", "s", " ", "g", "e", "n", "e", "r", "a", "t", "e", "d">>)),
      Throw(NonError(<<"I", "n", "v", "a", "l", "i", "d", " ", "d", "a", "t", "a", " ", "U", "R", "I", " ", "f", "o", "r", "m", "a", "t">>)) }

AnalyzeRequests ==
    [type : {Undefined, Str(<<>>), Str(TextType), Str(ImageType), Str(<<"v", "i", "d", "e", "o">>)},
     content : {Undefined, Str(<<>>), Str(<<"a">>), Str(DataImagePrefix \o <<"p">>)}]

GenerateRequests ==
    [baseImageUrl : {Undefined, Str(<<"a">>), Str(DataImagePrefix \o <<"p">>)},
     prompt : {Undefined, Str(<<" ">>), Str(<<"a">>)}]

\* A body of Null is one that is no JSON.
Requests ==
    {[route |-> "analyze", body |-> b] : b \in {Null} \cup {Some(r) : r \in AnalyzeRequests}}
    \cup {[route |-> "generate", body |-> b] : b \in {Null} \cup {Some(r) : r \in GenerateRequests}}

RouteIdle ==
    /\ request = Null
    /\ routePc = "idle"
    /\ limiter = Null
    /\ rateLimitResult = Null
    /\ bodyRead = FALSE
    /\ aiCalls = <<>>
    /\ routeResponse = Null

\* A request arrives: POST up to the await of checkRateLimit.
RoutePOST(req) ==
    /\ routePc \in {"idle", "done"}
    /\ request' = Some(req)
    /\ routePc' = "limit"
    /\ limiter' = Null
    /\ rateLimitResult' = Null
    /\ bodyRead' = FALSE
    /\ aiCalls' = <<>>
    /\ routeResponse' = Null
    /\ UNCHANGED <<batchVars, codecVars, posterVars, storeVars, uploaderVars>>

\* checkRateLimit settled: rateLimitMiddleware returns, and POST either
\* answers with its response or goes on: request.json(), the validation,
\* and the call of the AI capability.
RateLimitSettles(outcome) ==
    /\ routePc = "limit"
    /\ limiter' = Some(outcome)
    /\ rateLimitResult' = rateLimitMiddleware(outcome).rateLimitResult
    /\ IF rateLimitMiddleware(outcome).rateLimitResponse # Null
       THEN /\ routeResponse' = rateLimitMiddleware(outcome).rateLimitResponse
            /\ routePc' = "done"
            /\ UNCHANGED <<bodyRead, aiCalls>>
       ELSE /\ bodyRead' = TRUE
            /\ IF request[1].body = Null
               THEN /\ routeResponse' =
                          Some(NextResponse(ErrorStatus(SyntaxError),
                                            getRateLimitHeaders(rateLimitResult'),
                                            SyntaxError.message))
                    /\ routePc' = "done"
                    /\ UNCHANGED aiCalls
               ELSE IF Validation(request[1]) # Null
               THEN /\ routeResponse' =
                          Some(NextResponse(400, getRateLimitHeaders(rateLimitResult'),
                                            Validation(request[1])[1]))
                    /\ routePc' = "done"
                    /\ UNCHANGED aiCalls
               ELSE /\ aiCalls' = Append(aiCalls, [capability |-> request[1].route,
                                                  params |-> request[1].body[1],
                                                  outcome |-> Null])
                    /\ routePc' = "ai"
                    /\ UNCHANGED routeResponse
    /\ UNCHANGED request
    /\ UNCHANGED <<batchVars, codecVars, posterVars, storeVars, uploaderVars>>

\* The AI capability returned or threw: the 200, or the catch block.
AiSettles(outcome) ==
    /\ routePc = "ai"
    /\ aiCalls' = [aiCalls EXCEPT ![Len(aiCalls)].outcome = Some(outcome)]
    /\ routeResponse' =
          Some(IF outcome.returned
               THEN NextResponse(200, getRateLimitHeaders(rateLimitResult), outcome.value)
               ELSE NextResponse(ErrorStatus(outcome.value),
                                 getRateLimitHeaders(rateLimitResult),
                                 outcome.value.message))
    /\ routePc' = "done"
    /\ UNCHANGED <<request, limiter, rateLimitResult, bodyRead>>
    /\ UNCHANGED <<batchVars, codecVars, posterVars, storeVars, uploaderVars>>

----------------------------------------------------------------------------
(* BaseStyleUploader: the files selected, their upload one by one, and the
   reset of the form that a fully successful upload schedules. *)

\* Most File objects ever selected.
MaxFiles == 2
\* Most resets waiting for their 3 seconds at one time.
MaxTimers == 2

\* A Record<number, string> is a function from its keys; {} is the empty one.
EmptyRecord == [k \in {} |-> <<>>]
\* { ...a, ...b }
Spread(a, b) == [k \in DOMAIN a \cup DOMAIN b |-> IF k \in DOMAIN b THEN b[k] ELSE a[k]]
\* The record without the key index, the keys after it moved down by one.
Reindex(record, index) ==
    [k \in {j \in DOMAIN record : j < index} \cup {j - 1 : j \in {l \in DOMAIN record : l > index}} |->
        IF k < index THEN record[k] ELSE record[k + 1]]

\* name.replace(/\.[^/.]+$/, ''): the name without its last extension.
WithoutExtension(name) ==
    IF \E k \in 1..(Len(name) - 1) :
          name[k] = "." /\ \A j \in (k + 1)..Len(name) : name[j] \notin {"/", "."}
    THEN SubSeq(name, 1,
                (CHOOSE k \in 1..(Len(name) - 1) :
                    name[k] = "." /\ \A j \in (k + 1)..Len(name) : name[j] \notin {"/", "."}) - 1)
    ELSE name

\* The file names of the files a user picks, and the names a user types.
FileNames == {<<"a", ".", "p">>, <<".", "p">>}
TypedNames == {<<>>, <<" ">>, <<"n">>}

\* The k-th File the browser makes, and the object URL made for it.
File(k, name) == [id |-> k, name |-> name]
ObjectUrl(f) == f.id

UploaderInitial ==
    /\ images = <<>>
    /\ names = EmptyRecord
    /\ previews = EmptyRecord
    /\ uploading = FALSE
    /\ uploadResults = <<>>
    /\ closure = Null
    /\ uploadIndex = 0
    /\ resultsSoFar = <<>>
    /\ timers = <<>>
    /\ created = 0

\* The files of one change of the file input, named by fileNames.
handleFileSelect(fileNames) ==
    /\ ~uploading
    /\ fileNames # <<>>
    /\ created + Len(fileNames) <= MaxFiles
    /\ LET files == [k \in 1..Len(fileNames) |-> File(created + k, fileNames[k])]
           startIndex == Len(images)
           newPreviews == [k \in startIndex..(startIndex + Len(files) - 1) |->
                              ObjectUrl(files[k - startIndex + 1])]
           newNames == [k \in startIndex..(startIndex + Len(files) - 1) |->
                           WithoutExtension(files[k - startIndex + 1].name)]
       IN /\ images' = images \o files
          /\ previews' = Spread(previews, newPreviews)
          /\ names' = Spread(names, newNames)
    /\ created' = created + Len(fileNames)
    /\ UNCHANGED <<uploading, uploadResults, closure, uploadIndex, resultsSoFar, timers>>
    /\ UNCHANGED <<batchVars, codecVars, posterVars, storeVars, routeVars>>

\* The remove button of the image at index (from 0).
removeImage(index) ==
    /\ ~uploading
    /\ index \in 0..(Len(images) - 1)
    /\ previews' = Reindex(previews, index)
    /\ names' = Reindex(names, index)
    /\ images' = [k \in 1..(Len(images) - 1) |-> IF k <= index THEN images[k] ELSE images[k + 1]]
    /\ UNCHANGED <<uploading, uploadResults, closure, uploadIndex, resultsSoFar, timers, created>>
    /\ UNCHANGED <<batchVars, codecVars, posterVars, storeVars, routeVars>>

\* The name input of the image at index.
TypeName(index, text) ==
    /\ ~uploading
    /\ index \in 0..(Len(images) - 1)
    /\ names' = Spread(names, [k \in {index} |-> text])
    /\ UNCHANGED <<images, previews, uploading, uploadResults, closure, uploadIndex,
                   resultsSoFar, timers, created>>
    /\ UNCHANGED <<batchVars, codecVars, posterVars, storeVars, routeVars>>

\* names[i] || file.name.replace(/\.[^/.]+$/, '')
NameOf(c, k) ==
    IF k \in DOMAIN c.names /\ c.names[k] # <<>>
    THEN c.names[k]
    ELSE WithoutExtension(c.images[k + 1].name)

\* The loop of handleUpload from item k on, as far as it gets without an
\* await: an item without a name is given its failure and passed over.
RECURSIVE PassUnnamed(_, _, _)
PassUnnamed(c, k, res) ==
    IF k < Len(c.images) /\ trim(NameOf(c, k)) = <<>>
    THEN PassUnnamed(c, k + 1, Append(res, [success |-> FALSE, item |-> k,
                                            message |-> "Name is required"]))
    ELSE [i |-> k, results |-> res]

\* handleUpload from item k on with the results res: up to the next await,
\* or to its end, where a reset is scheduled if every result is a success.
ContinueUpload(c, k, res) ==
    LET at == PassUnnamed(c, k, res)
    IN  /\ uploadIndex' = at.i
        /\ IF at.i < Len(c.images)
           THEN /\ resultsSoFar' = at.results
                /\ closure' = Some(c)
                /\ uploading' = TRUE
                /\ uploadResults' = <<>>
                /\ UNCHANGED timers
           ELSE /\ resultsSoFar' = <<>>
                /\ closure' = Null
                /\ uploading' = FALSE
                /\ uploadResults' = at.results
                /\ timers' = IF \A r \in DOMAIN at.results : at.results[r].success
                             THEN Append(timers, c)
                             ELSE timers

\* The Upload button.
handleUpload ==
    /\ ~uploading
    /\ images # <<>>
    /\ Len(timers) < MaxTimers
    /\ ContinueUpload([images |-> images, names |-> names, previews |-> previews], 0, <<>>)
    /\ UNCHANGED <<images, names, previews, created>>
    /\ UNCHANGED <<batchVars, codecVars, posterVars, storeVars, routeVars>>

\* The file of the item at hand was read, its thumbnail made and POSTed to
\* /api/base-styles (ok), or one of these failed.
UploadSettles(ok) ==
    /\ uploading
    /\ closure # Null
    /\ ContinueUpload(closure[1], uploadIndex + 1,
                      Append(resultsSoFar,
                             [success |-> ok, item |-> uploadIndex,
                              message |-> IF ok THEN "uploaded successfully" ELSE "Upload failed"]))
    /\ UNCHANGED <<images, names, previews, created>>
    /\ UNCHANGED <<batchVars, codecVars, posterVars, storeVars, routeVars>>

\* The 3 seconds of the oldest reset are over.
ResetForm ==
    /\ timers # <<>>
    /\ timers' = Tail(timers)
    /\ images' = <<>>
    /\ names' = EmptyRecord
    /\ previews' = EmptyRecord
    /\ uploadResults' = <<>>
    /\ UNCHANGED <<uploading, closure, uploadIndex, resultsSoFar, created>>
    /\ UNCHANGED <<batchVars, codecVars, posterVars, storeVars, routeVars>>

TypeOK ==
    /\ pc \in {"idle", "for", "analyze", "generate", "returned", "thrown"}
    /\ i \in 0..Len(months)
    /\ onProgress \in BOOLEAN
    /\ promise \in {"pending", "fulfilled", "rejected"}

Init ==
    /\ RouteIdle
    /\ UploaderInitial
    /\ \/ /\ months \in SeqUpTo(Items(CoreData), MaxMonths)
          /\ api = CoreApi
       \/ /\ months \in [1..1 -> Items(RichData)]
          /\ api = FullApi
    /\ baseStyleImageUrl = "data:image/png;base64,U1RZTEU="
    /\ onProgress \in BOOLEAN
    /\ pc = "idle"
    /\ i = 0
    /\ results = <<>>
    /\ generatedPrompt = Null
    /\ progressCalls = <<>>
    /\ calls = <<>>
    /\ promise = "pending"
    /\ CodecIdle
    /\ PosterInitial
    /\ StoreInitial

Next ==
    \/ processBatchGeneration
    \/ StartItem
    \/ ReturnResults
    \/ \E resp \in api.analyze : AnalyzeResolves(resp)
    \/ \E resp \in api.analyze : AnalyzeRejects(resp)
    \/ \E resp \in api.generate : GenerateResolves(resp)
    \/ \E resp \in api.generate : GenerateRejects(resp)

Spec == Init /\ [][Next]_vars

\* The event loop runs the continuation of a settled await, and every call is
\* answered: a step that can be taken is eventually taken.
FairSpec == Spec /\ WF_vars(Next)

----------------------------------------------------------------------------
(* Batches whose onProgress may throw at any report; every item carries its
   position as index, as the items of WrappedPoster do. *)

ThrowingInit ==
    /\ RouteIdle
    /\ UploaderInitial
    /\ months \in UNION { { [k \in 1..n |-> [data |-> d[k], index |-> k - 1]] :
                              d \in [1..n -> CoreData] } : n \in 1..NumMonths }
    /\ api = CoreApi
    /\ baseStyleImageUrl = "data:image/png;base64,U1RZTEU="
    /\ onProgress = TRUE
    /\ pc = "idle"
    /\ i = 0
    /\ results = <<>>
    /\ generatedPrompt = Null
    /\ progressCalls = <<>>
    /\ calls = <<>>
    /\ promise = "pending"
    /\ CodecIdle
    /\ PosterInitial
    /\ StoreInitial

ThrowingNext ==
    \/ Next
    \/ StartItemCallbackThrows
    \/ \E resp \in api.analyze : AnalyzeRejectsCallbackThrows(resp)
    \/ \E resp \in api.generate : GenerateRejectsCallbackThrows(resp)
    \/ \E resp \in api.generate, again \in BOOLEAN : GenerateResolvesCallbackThrows(resp, again)

ThrowingSpec == ThrowingInit /\ [][ThrowingNext]_vars

----------------------------------------------------------------------------
(* The routes /api/analyze and /api/generate on their own, one request after
   the other *)

RouteInit ==
    /\ BatchIdle
    /\ CodecIdle
    /\ PosterInitial
    /\ StoreInitial
    /\ RouteIdle
    /\ UploaderInitial

RouteNext ==
    \/ \E req \in Requests : RoutePOST(req)
    \/ \E outcome \in LimiterOutcomes : RateLimitSettles(outcome)
    \/ \E outcome \in AiOutcomes : AiSettles(outcome)

RouteSpec == RouteInit /\ [][RouteNext]_vars

----------------------------------------------------------------------------
(* BaseStyleUploader on its own *)

UploaderInit ==
    /\ BatchIdle
    /\ CodecIdle
    /\ PosterInitial
    /\ StoreInitial
    /\ RouteIdle
    /\ UploaderInitial

UploaderNext ==
    \/ \E fileNames \in UNION {[1..n -> FileNames] : n \in 1..MaxFiles} : handleFileSelect(fileNames)
    \/ \E index \in 0..(MaxFiles - 1) : removeImage(index)
    \/ \E index \in 0..(MaxFiles - 1), text \in TypedNames : TypeName(index, text)
    \/ handleUpload
    \/ \E ok \in BOOLEAN : UploadSettles(ok)
    \/ ResetForm

UploaderSpec == UploaderInit /\ [][UploaderNext]_vars

----------------------------------------------------------------------------
(* The data URI functions on their own *)

CodecInit ==
    /\ RouteIdle
    /\ UploaderInitial
    /\ BatchIdle
    /\ PosterInitial
    /\ StoreInitial
    /\ base64Data = Null
    /\ mediaType = Null
    /\ \/ /\ codecIn \in {Some([bytes |-> b, mediaType |-> t]) : b \in ByteSeqs, t \in MediaTypes}
          /\ dataUri = Null
       \/ /\ codecIn = Null
          /\ dataUri \in {Some(u) : u \in CandidateUris}

CodecNext ==
    \/ Encode
    \/ ExtractBase64
    \/ ExtractMediaType

CodecSpec == CodecInit /\ [][CodecNext]_vars

----------------------------------------------------------------------------
(* The editor of WrappedPoster on its own *)

EditorInit ==
    /\ RouteIdle
    /\ UploaderInitial
    /\ BatchIdle
    /\ CodecIdle
    /\ PosterInitial
    /\ StoreInitial

EditorNext ==
    \/ \E m \in 0..(NumMonths - 1) : SelectMonth(m)
    \/ CloseEditor
    \/ CancelEditor
    \/ handleSave
    \/ \E type \in InputTypes : handleInputTypeChange(type)
    \/ \E text \in TypedTexts : TypeText(text)
    \/ \E f \in Files : handleImageUpload(f)
    \/ UploadCompletes
    \/ \E message \in UploadMessages : UploadFails(message)
    \/ handleImageRemove

EditorSpec == EditorInit /\ [][EditorNext]_vars

----------------------------------------------------------------------------
(* The routes of /api/base-styles on their own *)

StoreInit ==
    /\ RouteIdle
    /\ UploaderInitial
    /\ BatchIdle
    /\ CodecIdle
    /\ PosterInitial
    /\ collection = [k \in 1..MaxDocs |-> Null]
    /\ inserted = 0
    /\ now = 0
    /\ ignoreUndefined \in BOOLEAN
    /\ response = Null

StoreNext ==
    \/ \E body \in PostBodies : POST(body)
    \/ \E id \in RequestIds : GET(id)
    \/ \E id \in RequestIds, body \in PutBodies : PUT(id, body)
    \/ \E id \in RequestIds : DELETE(id)

StoreSpec == StoreInit /\ [][StoreNext]_vars

----------------------------------------------------------------------------
(* The batch of WrappedPoster: the editor is closed, the months hold what
   the editor can leave in them, an upload may still be in progress. *)

\* The answers of the batch's calls: one failure per endpoint, two images.
PosterApi ==
    [ analyze  |-> CoreApi.analyze,
      generate |-> CoreApi.generate
                      \cup {Response(TRUE, Some(Body("", "", "data:image/png;base64,UkVTMg==")))} ]

EditedMonths ==
    { InitialMonth,
      MonthData(Some("text"), <<"a">>, Null, "", Null, "idle"),
      MonthData(Some("text"), <<" ">>, Null, "", Null, "idle"),
      MonthData(Some("image"), <<>>, Some(UserImage), "", Null, "idle") }

PosterInit ==
    /\ RouteIdle
    /\ UploaderInitial
    /\ NoBatch(PosterApi)
    /\ CodecIdle
    /\ StoreInitial
    /\ monthsData \in [1..NumMonths -> EditedMonths]
    /\ selectedBaseStyle = Null
    /\ isProcessingAll = FALSE
    /\ batchProgress = Progress(0, 0, Null)
    /\ generationError = Null
    /\ selectedMonth = Null
    /\ upload \in {Null, Some(0)}
    /\ uploadError = Null
    /\ IF upload = Null
       THEN ProcessorInitial
       ELSE Processing([type |-> "image/png", size |-> MAX_FILE_SIZE])

PosterNext ==
    \/ \E baseStyle \in BaseStyles : handleBaseStyleSelect(baseStyle)
    \/ handleGenerateCalendar
    \/ StartItem
    \/ ReturnResults
    \/ \E resp \in api.analyze : AnalyzeResolves(resp)
    \/ \E resp \in api.analyze : AnalyzeRejects(resp)
    \/ \E resp \in api.generate : GenerateResolves(resp)
    \/ \E resp \in api.generate : GenerateRejects(resp)
    \/ FinishBatch
    \/ UploadCompletes

PosterSpec == PosterInit /\ [][PosterNext]_vars

----------------------------------------------------------------------------
(* Batches of WrappedPoster with the tiles: every month has content, a base
   style is selected, the editor is opened and closed between the clicks on
   Generate. *)

ReadyMonths == {month \in EditedMonths : HasContent(month)}

SessionInit ==
    /\ RouteIdle
    /\ UploaderInitial
    /\ BatchIdle
    /\ CodecIdle
    /\ StoreInitial
    /\ monthsData \in [1..NumMonths -> ReadyMonths]
    /\ selectedBaseStyle \in BaseStyles \ {Null}
    /\ isProcessingAll = FALSE
    /\ batchProgress = Progress(0, 0, Null)
    /\ generationError = Null
    /\ selectedMonth = Null
    /\ upload = Null
    /\ uploadError = Null
    /\ ProcessorInitial

SessionNext ==
    \/ \E m \in 0..(NumMonths - 1) : SelectMonth(m)
    \/ CloseEditor
    \/ handleGenerateCalendar
    \/ StartItem
    \/ ReturnResults
    \/ \E resp \in api.analyze : AnalyzeResolves(resp)
    \/ \E resp \in api.analyze : AnalyzeRejects(resp)
    \/ \E resp \in api.generate : GenerateResolves(resp)
    \/ \E resp \in api.generate : GenerateRejects(resp)
    \/ FinishBatch

SessionSpec == SessionInit /\ [][SessionNext]_vars

----------------------------------------------------------------------------
(* Properties *)

N == Len(months)

\* a is a prefix of b.
IsPrefix(a, b) == Len(a) <= Len(b) /\ SubSeq(b, 1, Len(a)) = a

\* What the endpoint answered to the calls of invocation k (the k-th item, from 0).
Answers(k, endpoint) ==
    { calls[c].response[1] :
        c \in {d \in DOMAIN calls : /\ calls[d].item = k
                                    /\ calls[d].endpoint = endpoint
                                    /\ calls[d].response # Null} }
NumCalls(k, endpoint) ==
    Cardinality({c \in DOMAIN calls : calls[c].item = k /\ calls[c].endpoint = endpoint})

\* The analysis answered with an instruction; the generation answered with an image.
AnalyzeOk(r) == r.kind = "response" /\ r.ok /\ r.json # Null /\ r.json[1].prompt # ""
GenerateOk(r) == r.kind = "response" /\ r.ok /\ r.json # Null /\ r.json[1].imageUrl # ""

InvocationSucceeded(k) ==
    /\ \E r \in Answers(k, "/api/analyze") : AnalyzeOk(r)
    /\ \E r \in Answers(k, "/api/generate") : GenerateOk(r)
InvocationFailed(k) ==
    \/ \E r \in Answers(k, "/api/analyze") : ~AnalyzeOk(r)
    \/ \E r \in Answers(k, "/api/generate") : ~GenerateOk(r)

HasResult(e) == e.result # Null
HasError(e) == e.error # Null

\* C1: for a non-empty batch of N items, whatever succeeds or fails, the
\* entries produced so far carry the indices of the first items in input
\* order, and the returned list has exactly N entries.
C1_OneEntryPerItemInOrder ==
    N > 0 =>
        /\ Len(results) <= N
        /\ \A k \in 1..Len(results) : results[k].index = months[k].index
        /\ pc = "returned" => Len(results) = N

\* C1 witness: a batch of several items returned, with a failure among them
\* and indices that differ from the positions.
C1_Witness ==
    /\ pc = "returned"
    /\ N >= 2
    /\ months[1].index > months[2].index
    /\ \E k \in 1..N : HasError(results[k])
    /\ \E k \in 1..N : HasResult(results[k])

\* C2: if the invocation for item k failed (in analyze or in generate), the
\* entry of k has an error and no result, and every later item was still sent
\* to the analysis and has its own entry when the batch returns.
C2_FailureIsolation ==
    pc = "returned" =>
        \A k \in 1..N :
            InvocationFailed(k - 1) =>
                /\ Len(results) >= k
                /\ HasError(results[k]) /\ ~HasResult(results[k])
                /\ \A j \in (k + 1)..N :
                    /\ NumCalls(j - 1, "/api/analyze") >= 1
                    /\ Len(results) >= j
                    /\ results[j].index = months[j].index

\* C2 witness: three items, only the analysis of the second fails, and the
\* outcome is success, failure, success.
C2_Witness ==
    /\ pc = "returned"
    /\ N >= 3
    /\ HasResult(results[1]) /\ HasError(results[2]) /\ HasResult(results[3])
    /\ \E r \in Answers(1, "/api/analyze") : ~AnalyzeOk(r)

\* C3: every entry has exactly one of result and error; it has the result
\* exactly when its invocation succeeded and the error exactly when it failed.
C3_ExactlyOneOfResultError ==
    \A k \in 1..Len(results) :
        /\ HasResult(results[k]) # HasError(results[k])
        /\ HasResult(results[k]) <=> InvocationSucceeded(k - 1)
        /\ HasError(results[k]) <=> InvocationFailed(k - 1)

\* C3 witness: a returned batch with a successful and a failed entry, the
\* failure being one of the generation.
C3_Witness ==
    /\ pc = "returned"
    /\ \E k \in 1..Len(results) : HasResult(results[k])
    /\ \E k \in 1..Len(results) :
        HasError(results[k]) /\ \E r \in Answers(k - 1, "/api/generate") : ~GenerateOk(r)

\* The j-th progress report of a batch: before item (j+1)/2 when j is odd,
\* after item j/2 when j is even.
ExpectedProgress(j) ==
    IF j % 2 = 1
    THEN [completed |-> (j - 1) \div 2, total |-> N,
          current |-> Some(months[(j + 1) \div 2].index)]
    ELSE [completed |-> j \div 2, total |-> N, current |-> Null]

\* C4: with a callback and N items the reports are before(0), after(0),
\* before(1), ... with the contents stated, one before each item started and
\* one after each item finished (on success and on failure alike), 2N in all
\* when the batch returns, the last with completed = N.
C4_ProgressReports ==
    onProgress =>
        /\ \A j \in 1..Len(progressCalls) : progressCalls[j] = ExpectedProgress(j)
        /\ Len(progressCalls) =
              2 * Len(results) + (IF pc \in {"analyze", "generate"} THEN 1 ELSE 0)
        /\ pc = "returned" =>
              /\ Len(progressCalls) = 2 * N
              /\ N > 0 => progressCalls[2 * N].completed = N

\* C4 witness: a batch with a callback returned after a failure and a success.
C4_Witness ==
    /\ onProgress
    /\ pc = "returned"
    /\ N >= 2
    /\ \E k \in 1..N : HasError(results[k])
    /\ \E k \in 1..N : HasResult(results[k])

\* C5: at most one call is in flight, calls are made in input order, and
\* when a call for an item exists every earlier item has its entry and
\* every call of an earlier item has been answered.
C5_Sequential ==
    /\ Cardinality(InFlight) <= 1
    /\ \A c, d \in DOMAIN calls : c < d => calls[c].item <= calls[d].item
    /\ \A c \in DOMAIN calls :
        /\ Len(results) >= calls[c].item
        /\ \A d \in DOMAIN calls :
            calls[d].item < calls[c].item => calls[d].response # Null

\* C5 witness: the analysis of the second item is in flight after the first
\* item failed.
C5_Witness ==
    /\ pc = "analyze"
    /\ i = 1
    /\ HasError(results[1])
    /\ Cardinality(InFlight) = 1

\* C6: the promise of the batch is never rejected and is fulfilled on return;
\* every failed invocation has its entry as soon as it failed, and the error
\* of an entry is an Error.
C6_NoErrorPropagates ==
    /\ promise # "rejected"
    /\ pc = "returned" => promise = "fulfilled"
    /\ \A k \in 1..N : InvocationFailed(k - 1) => Len(results) >= k
    /\ \A k \in 1..Len(results) : HasError(results[k]) => results[k].error[1].isError

\* C6 witness: a batch returned after a call was rejected with a value that
\* is not an Error, and after a call was rejected with an Error.
C6_Witness ==
    /\ pc = "returned"
    /\ \E c \in DOMAIN calls :
        calls[c].response # Null /\ calls[c].response[1].kind = "reject"
                                 /\ ~calls[c].response[1].thrown.isError
    /\ \E k \in 1..Len(results) : HasError(results[k])

\* C7 (as claimed): called with an empty list, the batch is rejected, and no
\* progress report and no call is made.
C7_EmptyBatchFailsFast ==
    (N = 0 /\ pc = "returned") =>
        /\ promise = "rejected"
        /\ progressCalls = <<>>
        /\ calls = <<>>

\* C8: from one state to the next the results list only grows at its end.
C8_AppendOnly == [][IsPrefix(results, results')]_vars

\* C8 witness: a list of two different entries.
C8_Witness == Len(results) >= 2 /\ results[1] # results[2]

\* C9 (as claimed): every invocation that has resolved made exactly one
\* analyze call and exactly one generate call.
C9_ExactlyOneAnalyzeOneGenerate ==
    \A k \in 0..(Len(results) - 1) :
        /\ NumCalls(k, "/api/analyze") = 1
        /\ NumCalls(k, "/api/generate") = 1

\* C9 (amended): every invocation makes exactly one analyze call, and one
\* generate call when the analysis returned an instruction and none when it
\* failed; no call is made twice.
C9_OneAnalyzeAtMostOneGenerate ==
    /\ \A k \in 0..(Len(results) - 1) :
        /\ NumCalls(k, "/api/analyze") = 1
        /\ NumCalls(k, "/api/generate") =
              (IF \E r \in Answers(k, "/api/analyze") : AnalyzeOk(r) THEN 1 ELSE 0)
    /\ \A k \in 0..(N - 1) :
        /\ NumCalls(k, "/api/analyze") <= 1
        /\ NumCalls(k, "/api/generate") <= 1

\* C9 witness: a returned batch with an invocation whose analysis failed and
\* one whose generation failed.
C9_Witness ==
    /\ pc = "returned"
    /\ \E k \in 0..(N - 1) : \E r \in Answers(k, "/api/analyze") : ~AnalyzeOk(r)
    /\ \E k \in 0..(N - 1) : \E r \in Answers(k, "/api/generate") : ~GenerateOk(r)

\* t is s without its leading and trailing white space.
IsTrimOf(t, s) ==
    \E a, b \in 0..Len(s) :
        /\ a + b <= Len(s)
        /\ t = SubSeq(s, a + 1, Len(s) - b)
        /\ \A j \in 1..a : s[j] \in WhiteSpace
        /\ \A j \in (Len(s) - b + 1)..Len(s) : s[j] \in WhiteSpace
        /\ t # <<>> => (t[1] \notin WhiteSpace /\ t[Len(t)] \notin WhiteSpace)

\* C10: a month with an image (not null, not empty) is analysed as kind
\* "image" with that image; any other month as kind "text" with its text
\* without leading and trailing white space; an image is never sent as text
\* nor a text as image.
C10_AnalysisInputByImage ==
    \A c \in DOMAIN calls :
        calls[c].endpoint = "/api/analyze" =>
            LET data == months[calls[c].item + 1].data
                body == calls[c].body
            IN  /\ IF data.baseImage # Null /\ data.baseImage[1] # <<>>
                   THEN body.type = "image" /\ body.content = data.baseImage[1]
                   ELSE body.type = "text" /\ IsTrimOf(body.content, data.editPrompt)
                /\ body.type = "image" => body.content = UserImage
                /\ body.type = "text" => \A j \in DOMAIN body.content : body.content[j] \in Chars

\* C10 witness: a month with an empty image and a text with white space on
\* both sides was analysed.
C10_Witness ==
    \E c \in DOMAIN calls :
        /\ calls[c].endpoint = "/api/analyze"
        /\ months[calls[c].item + 1].data.baseImage = Some(<<>>)
        /\ calls[c].body.content # <<>>
        /\ Len(calls[c].body.content) + 2 <= Len(months[calls[c].item + 1].data.editPrompt)

\* C11: a generate call is made only after the analysis of the same item
\* answered with a non-empty instruction, and carries that instruction and
\* the base style image of the batch; when the analysis is unreachable,
\* answers with an error or gives no instruction, the item fails and no
\* generate call is made for it.
C11_GenerateOnlyAfterInstruction ==
    /\ \A c \in DOMAIN calls :
        calls[c].endpoint = "/api/generate" =>
            /\ c > 1
            /\ calls[c - 1].endpoint = "/api/analyze"
            /\ calls[c - 1].item = calls[c].item
            /\ calls[c - 1].response # Null
            /\ AnalyzeOk(calls[c - 1].response[1])
            /\ calls[c].body.prompt = calls[c - 1].response[1].json[1].prompt
            /\ calls[c].body.prompt # ""
            /\ calls[c].body.baseImageUrl = baseStyleImageUrl
    /\ \A k \in 0..(N - 1) :
        (\E r \in Answers(k, "/api/analyze") : ~AnalyzeOk(r)) =>
            /\ NumCalls(k, "/api/generate") = 0
            /\ Len(results) > k
            /\ HasError(results[k + 1]) /\ ~HasResult(results[k + 1])

\* C11 witness: the analysis answered ok without an instruction and the batch
\* has returned.
C11_Witness ==
    /\ pc = "returned"
    /\ \E c \in DOMAIN calls :
        /\ calls[c].endpoint = "/api/analyze"
        /\ calls[c].response # Null
        /\ calls[c].response[1].kind = "response"
        /\ calls[c].response[1].ok
        /\ calls[c].response[1].json # Null
        /\ calls[c].response[1].json[1].prompt = ""

\* C12: every result of an entry has a non-empty instruction and a non-empty
\* image, those the two endpoints answered; when the generation answers with
\* an error or without an image the entry has an error and no result.
C12_ResultComplete ==
    /\ \A k \in 1..Len(results) :
        HasResult(results[k]) =>
            /\ results[k].result[1].generatedPrompt # ""
            /\ results[k].result[1].resultImageUrl # ""
            /\ \E r \in Answers(k - 1, "/api/analyze") :
                AnalyzeOk(r) /\ r.json[1].prompt = results[k].result[1].generatedPrompt
            /\ \E r \in Answers(k - 1, "/api/generate") :
                GenerateOk(r) /\ r.json[1].imageUrl = results[k].result[1].resultImageUrl
    /\ \A k \in 0..(N - 1) :
        (\E r \in Answers(k, "/api/generate") : ~GenerateOk(r)) =>
            /\ Len(results) > k
            /\ HasError(results[k + 1]) /\ ~HasResult(results[k + 1])

\* C12 witness: the generation answered ok without an image and the batch
\* has returned.
C12_Witness ==
    /\ pc = "returned"
    /\ \E c \in DOMAIN calls :
        /\ calls[c].endpoint = "/api/generate"
        /\ calls[c].response # Null
        /\ calls[c].response[1].kind = "response"
        /\ calls[c].response[1].ok
        /\ calls[c].response[1].json # Null
        /\ calls[c].response[1].json[1].imageUrl = ""

\* The invocation of item k (from 0) has resolved.
Resolved(k) == InvocationFailed(k) \/ InvocationSucceeded(k)

\* The entry of item k (from 1), as the items and the answers alone give it.
EntryFromAnswers(k) ==
    LET a == CHOOSE r \in Answers(k - 1, "/api/analyze") : TRUE
    IN  IF ~AnalyzeOk(a)
        THEN [index |-> months[k].index, result |-> Null,
              error |-> Some(Err(analyzeInputClient(a).value.message))]
        ELSE LET g == CHOOSE r \in Answers(k - 1, "/api/generate") : TRUE
             IN  IF ~GenerateOk(g)
                 THEN [index |-> months[k].index, result |-> Null,
                       error |-> Some(Err(generateImageClient(g).value.message))]
                 ELSE [index |-> months[k].index,
                       result |-> Some([resultImageUrl |-> g.json[1].imageUrl,
                                        generatedPrompt |-> a.json[1].prompt]),
                       error |-> Null]

\* The c-th call, as the items and the answers to the earlier calls alone give it.
CallFromAnswers(c) ==
    IF c = 1
    THEN [endpoint |-> "/api/analyze", body |-> AnalyzeParams(months[1].data), item |-> 0]
    ELSE LET p == calls[c - 1]
         IN  IF p.endpoint = "/api/analyze" /\ AnalyzeOk(p.response[1])
             THEN [endpoint |-> "/api/generate",
                   body |-> [baseImageUrl |-> baseStyleImageUrl,
                             prompt |-> p.response[1].json[1].prompt],
                   item |-> p.item]
             ELSE [endpoint |-> "/api/analyze",
                   body |-> AnalyzeParams(months[p.item + 2].data),
                   item |-> p.item + 1]

\* C13: the results list and the sequence of calls are what the items and
\* the answers of the endpoints alone determine, with a callback and without
\* one: the list has the entry of every resolved invocation and of no other,
\* each entry and each call being the one the items and the earlier answers
\* give, and at return every item has its entry.
C13_CallbackIsObserver ==
    /\ \A k \in 0..(N - 1) : Resolved(k) <=> k < Len(results)
    /\ Len(results) <= N
    /\ \A k \in 1..Len(results) : results[k] = EntryFromAnswers(k)
    /\ \A c \in DOMAIN calls :
        /\ c > 1 => calls[c - 1].response # Null
        /\ calls[c].item < N
        /\ [endpoint |-> calls[c].endpoint, body |-> calls[c].body, item |-> calls[c].item]
              = CallFromAnswers(c)
    /\ pc = "returned" => Len(results) = N

\* C13 witness: a batch run without a callback returned with a success and
\* a failure.
C13_Witness ==
    /\ ~onProgress
    /\ pc = "returned"
    /\ progressCalls = <<>>
    /\ \E k \in 1..Len(results) : HasError(results[k])
    /\ \E k \in 1..Len(results) : HasResult(results[k])

\* C14: when every call is answered the batch returns, and it returns only
\* with every one of the N items attempted: each has its analyze call and
\* its entry.
C14_RunsToCompletion ==
    /\ <>(pc = "returned")
    /\ [](pc = "returned" =>
            /\ Len(results) = N
            /\ \A k \in 0..(N - 1) : NumCalls(k, "/api/analyze") >= 1 /\ Resolved(k))

\* C14 witness: a batch of three items returned after its first item failed.
C14_Witness ==
    /\ pc = "returned"
    /\ N >= 3
    /\ HasError(results[1])

----------------------------------------------------------------------------
(* imageUtils *)

Base64Index(c) == (CHOOSE k \in DOMAIN Base64Alphabet : Base64Alphabet[k] = c) - 1

\* What a base64 text stands for: four characters give three bytes, a
\* group ending in "==" or "=" gives one or two.
RECURSIVE Base64Decode(_)
Base64Decode(s) ==
    IF Len(s) < 4 THEN <<>>
    ELSE IF s[3] = "=" THEN
        <<(Base64Index(s[1]) * 64 + Base64Index(s[2])) \div 16>>
    ELSE IF s[4] = "=" THEN
        LET n == (Base64Index(s[1]) * 4096 + Base64Index(s[2]) * 64 + Base64Index(s[3])) \div 4
        IN  <<n \div 256, n % 256>>
    ELSE
        LET n == Base64Index(s[1]) * 262144 + Base64Index(s[2]) * 4096
                 + Base64Index(s[3]) * 64 + Base64Index(s[4])
        IN  <<n \div 65536, (n \div 256) % 256, n % 256>> \o Base64Decode(Drop(s, 4))

\* C15: the data URI made from a non-empty byte sequence b and "image/png"
\* gives back "image/png" as its media type and a base64 payload that
\* decodes to b; neither extraction throws.
C15_RoundTrip ==
    (codecIn # Null /\ codecIn[1].bytes # <<>> /\ codecIn[1].mediaType = ImagePng) =>
        /\ mediaType # Null => mediaType[1] = Return(ImagePng)
        /\ base64Data # Null =>
              /\ base64Data[1].returned
              /\ Base64Decode(base64Data[1].value) = codecIn[1].bytes

\* C15 witness: three bytes, among them 0 and 255, went through the
\* encoding and both extractions.
C15_Witness ==
    /\ codecIn # Null
    /\ codecIn[1].mediaType = ImagePng
    /\ codecIn[1].bytes = <<255, 0, 97>>
    /\ mediaType # Null
    /\ base64Data # Null

\* The string has the form data:<type>/<subtype>;base64,<payload> with a
\* type and a subtype that are not empty.
MatchesPattern(s) ==
    /\ StartsWith(s, DataScheme)
    /\ \E a, b \in DOMAIN s :
          /\ a > Len(DataScheme) + 1
          /\ s[a] = "/"
          /\ b > a + 1
          /\ StartsWith(Drop(s, b - 1), Base64Marker)

\* C16: on a string that is not of the form
\* data:<type>/<subtype>;base64,<payload> both extractBase64FromDataUri and
\* extractMediaTypeFromDataUri throw 'Invalid data URI format'.
C16_InvalidFormatThrows ==
    (dataUri # Null /\ ~MatchesPattern(dataUri[1])) =>
        /\ base64Data # Null => base64Data[1] = InvalidFormat
        /\ mediaType # Null => mediaType[1] = InvalidFormat

\* C16 witness: both extractions were applied to "not-a-data-uri".
C16_Witness ==
    /\ dataUri = Some(NotADataUri)
    /\ base64Data # Null
    /\ mediaType # Null

----------------------------------------------------------------------------
(* WrappedPoster *)

\* A base style with an image is selected.
StyleSelected == selectedBaseStyle # Null /\ selectedBaseStyle[1].imageUrl # ""

\* The month has an image or a text that is not blank.
MonthHasContent(month) ==
    \/ month.baseImage # Null /\ month.baseImage[1] # <<>>
    \/ \E j \in DOMAIN month.userInput : month.userInput[j] \notin WhiteSpace

AllMonthsHaveContent == \A m \in DOMAIN monthsData : MonthHasContent(monthsData[m])

\* The status and the result of every month.
Outcome(data) == [m \in DOMAIN data |-> <<data[m].status, data[m].resultImage, data[m].generatedPrompt>>]

\* C17: while no batch runs, a batch starts only with a base style that has
\* an image and content in every month; without them no step starts one: no
\* progress is reported, no call is made, no month's status or result
\* changes, and the error shown, when it changes, is set.
C17_BatchOnlyWhenReady ==
    [][ pc = "idle" =>
          /\ pc' # "idle" => StyleSelected /\ AllMonthsHaveContent
          /\ ~(StyleSelected /\ AllMonthsHaveContent) =>
                /\ pc' = "idle"
                /\ ~isProcessingAll'
                /\ calls' = calls
                /\ progressCalls' = progressCalls
                /\ batchProgress' = batchProgress
                /\ Outcome(monthsData') = Outcome(monthsData)
                /\ generationError' # generationError => generationError' # Null ]_vars

\* C17 witness: with a base style selected the click was refused for a month
\* whose text is blank, and nothing was called.
C17_Witness ==
    /\ StyleSelected
    /\ generationError # Null
    /\ generationError[1].message = "Please add content for all 12 months"
    /\ \E m \in DOMAIN monthsData : monthsData[m].userInput = <<" ">>
    /\ pc = "idle"
    /\ calls = <<>>

\* C18: when handleGenerateCalendar has finished a batch, every month whose
\* two calls succeeded is 'completed' and holds the image and the
\* instruction its calls returned, every month with a failed call is 'error',
\* and no month is 'processing'.
C18_BatchOutcome ==
    (pc = "idle" /\ promise = "fulfilled") =>
        \A m \in DOMAIN monthsData :
            /\ monthsData[m].status \in {"completed", "error"}
            /\ InvocationSucceeded(m - 1) =>
                  /\ monthsData[m].status = "completed"
                  /\ \E r \in Answers(m - 1, "/api/generate") :
                        monthsData[m].resultImage = Some(r.json[1].imageUrl)
                  /\ \E r \in Answers(m - 1, "/api/analyze") :
                        monthsData[m].generatedPrompt = r.json[1].prompt
            /\ InvocationFailed(m - 1) => monthsData[m].status = "error"

\* C18 witness: a finished batch whose first month failed and whose second
\* month succeeded.
C18_Witness ==
    /\ pc = "idle"
    /\ promise = "fulfilled"
    /\ monthsData[1].status = "error"
    /\ monthsData[2].status = "completed"
    /\ monthsData[2].resultImage # Null

\* C19: no month ever holds an image together with a text; a month that
\* gets the input type 'image' or an image has its text cleared, a month
\* that gets the input type 'text' has its image cleared.
C19_ImageOrText ==
    [][ \A m \in DOMAIN monthsData :
          /\ ~(monthsData[m].baseImage' # Null /\ monthsData[m].userInput' # <<>>)
          /\ (monthsData[m].inputType' = Some("image") /\ monthsData[m].inputType # Some("image"))
                => monthsData[m].userInput' = <<>>
          /\ (monthsData[m].baseImage' # Null /\ monthsData[m].baseImage = Null)
                => monthsData[m].userInput' = <<>>
          /\ (monthsData[m].inputType' = Some("text") /\ monthsData[m].inputType # Some("text"))
                => monthsData[m].baseImage' = Null ]_vars

\* C19 witness: an upload has completed on a month whose editor is closed,
\* while another month holds a text.
C19_Witness ==
    /\ \E m \in DOMAIN monthsData :
          /\ monthsData[m].baseImage # Null
          /\ selectedMonth # Some(m - 1)
    /\ \E m \in DOMAIN monthsData : monthsData[m].userInput = <<"a">>

----------------------------------------------------------------------------
(* Base styles *)

\* The base style the id names is stored.
Exists(id) ==
    /\ id.wellFormed
    /\ id.value \in DOMAIN collection
    /\ collection[id.value] # Null

\* A base style was created under the id.
WasCreated(id) == id.wellFormed /\ id.value \in 1..inserted

\* A body as PUT documents it: every field optional, the imageUrl a
\* data:image/ URI when there is one.
ValidUpdate(body) ==
    body.imageUrl.type = "string" =>
        /\ Len(body.imageUrl.string) >= Len(DataImagePrefix)
        /\ SubSeq(body.imageUrl.string, 1, Len(DataImagePrefix)) = DataImagePrefix

\* C20: a POST with a name and a data:image/ imageUrl answers 201 with the
\* stored object and its _id; GET and PUT on the id of a stored object
\* answer 200; DELETE on it answers 200 with success and removes it; GET,
\* PUT and DELETE on the id of a deleted object answer 404; DELETE on an id
\* under which nothing was created answers 404 and removes nothing.
C20_CrudLifecycle ==
    [][ (response' # Null /\ (response' # response \/ collection' # collection)) =>
          LET r == response'[1]
          IN  /\ ( /\ r.method = "POST"
                   /\ r.body.name.type = "string" /\ r.body.name.string # <<>>
                   /\ r.body.imageUrl.type = "string"
                   /\ ValidUpdate(r.body) ) =>
                      /\ r.status = 201
                      /\ r.json._id \in DOMAIN collection
                      /\ collection[r.json._id] = Null
                      /\ collection'[r.json._id] # Null
              /\ (r.method = "GET" /\ Exists(r.id[1])) => r.status = 200
              /\ (r.method = "PUT" /\ ValidUpdate(r.body) /\ Exists(r.id[1])) => r.status = 200
              /\ (r.method = "DELETE" /\ Exists(r.id[1])) =>
                      /\ r.status = 200
                      /\ r.json.success
                      /\ collection'[r.id[1].value] = Null
              /\ ( /\ r.method \in {"GET", "DELETE"} \/ (r.method = "PUT" /\ ValidUpdate(r.body))
                   /\ WasCreated(r.id[1])
                   /\ ~Exists(r.id[1]) ) => r.status = 404
              /\ (r.method = "DELETE" /\ ~WasCreated(r.id[1])) =>
                      /\ r.status = 404
                      /\ collection' = collection ]_vars

----------------------------------------------------------------------------
(* imageUtils: the two extractions together *)

\* C26: on every string the two extractions agree: both return a value or
\* both throw 'Invalid data URI format'.
C26_ExtractionsAgree ==
    (base64Data # Null /\ mediaType # Null) =>
        /\ base64Data[1].returned = mediaType[1].returned
        /\ ~base64Data[1].returned =>
              base64Data[1] = InvalidFormat /\ mediaType[1] = InvalidFormat

----------------------------------------------------------------------------
(* Base styles: the update *)

\* C21: a PUT that updates a stored base style changes only the fields its
\* body supplies and updatedAt: a field the body leaves out, createdAt and
\* the id keep their values, and every other stored base style is as before.
C21_PartialUpdate ==
    [][ ( /\ response' # Null
          /\ response'[1].method = "PUT"
          /\ response'[1].status = 200
          /\ collection' # collection ) =>
          LET r == response'[1]
              oid == r.id[1].value
              old == collection[oid][1]
              new == collection'[oid][1]
          IN  /\ \A k \in DOMAIN collection : k # oid => collection'[k] = collection[k]
              /\ r.json._id = oid
              /\ new.createdAt = old.createdAt
              /\ r.body.name.type = "undefined" => new.name = old.name
              /\ r.body.imageUrl.type = "undefined" => new.imageUrl = old.imageUrl
              /\ r.body.thumbnailUrl.type = "undefined" => new.thumbnailUrl = old.thumbnailUrl ]_vars

----------------------------------------------------------------------------
(* WrappedPoster: the statuses during a batch *)

\* The months shown as 'processing'.
ProcessingMonths == {m \in DOMAIN monthsData : monthsData[m].status = "processing"}

\* C27: while a batch of WrappedPoster runs at most one month is
\* 'processing', and while the invocation of an item is in flight no month
\* but that item's is 'processing'.
C27_ProcessingOnlyInFlight ==
    isProcessingAll =>
        /\ Cardinality(ProcessingMonths) <= 1
        /\ pc \in {"analyze", "generate"} =>
              \A m \in ProcessingMonths : m = months[i + 1].index + 1

----------------------------------------------------------------------------
(* WrappedPoster: isProcessingAll *)

\* The batch handleGenerateCalendar started has not been finished.
BatchInFlight == pc \in {"for", "analyze", "generate", "returned"}

\* C28: isProcessingAll is true exactly while a batch is in flight; it
\* becomes true with the start of a batch and false, with the progress
\* reset, when the batch has returned; while it is true no second batch
\* starts and no editor is opened.
C28_ProcessingAllGuards ==
    [][ /\ isProcessingAll' <=> BatchInFlight'
        /\ (~isProcessingAll /\ isProcessingAll') => (pc = "idle" /\ pc' = "for" /\ i' = 0)
        /\ (isProcessingAll /\ ~isProcessingAll') =>
              /\ pc = "returned"
              /\ batchProgress' = Progress(0, 0, Null)
        /\ isProcessingAll =>
              /\ months' = months
              /\ i' >= i
              /\ Len(calls') >= Len(calls)
              /\ selectedMonth' # selectedMonth => selectedMonth' = Null ]_vars

\* C28 witness: a batch has finished and an editor was opened afterwards.
C28_Witness ==
    /\ ~isProcessingAll
    /\ pc = "idle"
    /\ promise = "fulfilled"
    /\ batchProgress = Progress(0, 0, Null)
    /\ selectedMonth # Null

----------------------------------------------------------------------------
(* calendarService: a callback that throws *)

\* C25: whatever the callback does, no two entries of the results belong to
\* the same item, and there are no more entries than items whose invocation
\* has resolved.
C25_OneEntryPerItem ==
    /\ \A j, k \in DOMAIN results : j # k => results[j].index # results[k].index
    /\ Len(results) <= Cardinality({k \in 0..(N - 1) : Resolved(k)})

----------------------------------------------------------------------------
(* /api/analyze and /api/generate *)

Status == routeResponse[1].status
\* checkRateLimit reported that the limit is exceeded.
Exceeded == limiter # Null /\ limiter[1].returned /\ ~limiter[1].value.success
\* checkRateLimit threw.
CheckThrew == limiter # Null /\ ~limiter[1].returned
\* The request has a JSON body the route accepts.
ValidRequest == request # Null /\ request[1].body # Null /\ Validation(request[1]) = Null

\* C22: a request of a client over its limit is answered 429 without its
\* body being read and without a call of the AI capability; the AI capability
\* is called only after a check that succeeded or that threw.
C22_LimitedBeforeWork ==
    /\ Exceeded =>
          /\ routePc = "done"
          /\ routeResponse # Null
          /\ Status = 429
          /\ ~bodyRead
          /\ aiCalls = <<>>
    /\ aiCalls # <<>> =>
          /\ limiter # Null
          /\ ~limiter[1].returned \/ limiter[1].value.success

C22_Witness == Exceeded /\ ValidRequest /\ routeResponse # Null /\ Status = 429

\* The AI capability was called and threw.
AiFailed == aiCalls # <<>> /\ aiCalls[1].outcome # Null /\ ~aiCalls[1].outcome[1].returned

\* C23: when the check throws, rateLimitMiddleware hands back neither a
\* response nor a result: the body is read, a valid request reaches the AI
\* capability, the answer carries no X-RateLimit header, is no 429, and is a
\* 500 only for a body that is no JSON or a failure of the AI capability.
C23_FailsOpen ==
    CheckThrew =>
        /\ rateLimitResult = Null
        /\ bodyRead
        /\ ValidRequest => aiCalls # <<>>
        /\ routeResponse # Null =>
              /\ DOMAIN routeResponse[1].headers = {}
              /\ Status # 429
              /\ Status = 500 => (request[1].body = Null \/ AiFailed)

C23_Witness == CheckThrew /\ routeResponse # Null /\ Status = 200

Missing(value) == value.type # "string"
Blank(s) == \A k \in DOMAIN s : s[k] \in WhiteSpace

\* The requests the routes are said to reject.
InvalidRequest(req) ==
    IF req.route = "analyze"
    THEN \/ Missing(req.body[1].type)
         \/ Missing(req.body[1].content)
         \/ req.body[1].type.string \notin {TextType, ImageType}
         \/ /\ req.body[1].type.string = ImageType
            /\ ~StartsWith(req.body[1].content.string, DataImagePrefix)
    ELSE \/ Missing(req.body[1].baseImageUrl)
         \/ Missing(req.body[1].prompt)
         \/ ~StartsWith(req.body[1].baseImageUrl.string, DataImagePrefix)
         \/ Blank(req.body[1].prompt.string)

\* The failure is an Error whose message mentions 'data URI'.
MentionsDataUri(thrown) == thrown.isError /\ Includes(thrown.message, DataUriWords)

\* C24: a request that got past the rate limit and is invalid (a field
\* missing, a type that is neither 'text' nor 'image', an image or a base
\* image that is no data:image/ URI, a blank prompt) is answered 400 and the AI
\* capability is not called; a failure of the AI capability is answered 400
\* when its message mentions 'data URI' and 500 otherwise.
C24_InvalidRequests ==
    /\ ( /\ limiter # Null
         /\ ~Exceeded
         /\ request[1].body # Null
         /\ InvalidRequest(request[1]) ) =>
            /\ routeResponse # Null
            /\ Status = 400
            /\ aiCalls = <<>>
    /\ AiFailed =>
          /\ routeResponse # Null
          /\ Status = IF MentionsDataUri(aiCalls[1].outcome[1].value) THEN 400 ELSE 500

C24_Witness ==
    /\ AiFailed
    /\ MentionsDataUri(aiCalls[1].outcome[1].value)
    /\ Status = 400

----------------------------------------------------------------------------
(* BaseStyleUploader *)

\* The positions (from 0) of the images that were not part of the upload
\* whose reset is due.
SelectedLater ==
    {k \in 0..(Len(images) - 1) : \A j \in DOMAIN timers[1].images : timers[1].images[j] # images[k + 1]}

\* C29: the delayed reset discards only the images of its upload: an image
\* selected after that upload is still selected after the reset, with its
\* name and its preview.
C29_ResetKeepsLaterImages ==
    [][ (timers # <<>> /\ timers' = Tail(timers)) =>
            \A k \in SelectedLater :
                \E j \in 0..(Len(images') - 1) :
                    /\ images'[j + 1] = images[k + 1]
                    /\ j \in DOMAIN names' /\ names'[j] = names[k]
                    /\ j \in DOMAIN previews' /\ previews'[j] = previews[k] ]_vars

----------------------------------------------------------------------------
(* useUploadImageProcessor in WrappedPoster *)

\* This step calls processImage: handleImageUpload up to its await.
ProcessImageCalled == upload = Null /\ upload' # Null
\* This step settles the promise of processImage: at once when the file is
\* not valid, when the FileReader is done otherwise.
ProcessImageSettled ==
    /\ processed' \in {"resolved", "rejected"}
    /\ ProcessImageCalled \/ processed = "pending"
\* This step is the catch block of handleImageUpload.
UploadCaught == upload # Null /\ upload' = Null /\ processed' = "rejected"

SameInput(before, after) ==
    /\ after.baseImage = before.baseImage
    /\ after.inputType = before.inputType
    /\ after.userInput = before.userInput

\* C30: processImage rejects a file of a type that is not allowed with
\* INVALID_TYPE and a file (of an allowed type) of more than 10 MB with
\* FILE_TOO_LARGE, and the FileReader is given neither; when processImage
\* settles, isProcessing is false and error is set exactly if it rejected; a
\* rejection leaves baseImage, inputType and text of every month as they were.
C30_ProcessImage ==
    [][ /\ ProcessImageCalled =>
              /\ file'[1].type \notin ALLOWED_TYPES =>
                    /\ processed' = "rejected"
                    /\ imageError' # Null
                    /\ imageError'[1].code = "INVALID_TYPE"
                    /\ reading' = Null
              /\ (file'[1].type \in ALLOWED_TYPES /\ file'[1].size > MAX_FILE_SIZE) =>
                    /\ processed' = "rejected"
                    /\ imageError' # Null
                    /\ imageError'[1].code = "FILE_TOO_LARGE"
                    /\ reading' = Null
        /\ ProcessImageSettled =>
              /\ ~isProcessing'
              /\ imageError' # Null <=> processed' = "rejected"
        /\ ((ProcessImageSettled /\ processed' = "rejected") \/ UploadCaught) =>
              \A m \in DOMAIN monthsData : SameInput(monthsData[m], monthsData'[m]) ]_vars

C30_Witness ==
    /\ processed = "rejected"
    /\ imageError # Null
    /\ imageError[1].code = "FILE_TOO_LARGE"
    /\ reading = Null
    /\ upload = Null
    /\ uploadError # Null

====
